---- MODULE Spec2Model ----
(***************************************************************************)
(* State-machine model of dex::DexDB (src/src/dex/db/dexdb.cpp): the       *)
(* SQLite-backed store of offer records (offersSell, offersBuy, myOffers), *)
(* its expiration sweeps, the hash/editingVersion manifests and the schema *)
(* migration run by the constructor.                                       *)
(*                                                                         *)
(* The variable db is the SQLite database behind the member DexDB::db:     *)
(* db.tab maps every existing table name to its set of rows (a row is the  *)
(* record of its column values as SQLite stores them: hex text for         *)
(* uint256, signed 64-bit integers for the unsigned C++ magnitudes),       *)
(* db.sql maps it to the text of its CREATE statement, and db.idx is the   *)
(* set of existing index names.  The variable last records the operation   *)
(* that completed last and how it ended.                                   *)
(***************************************************************************)
EXTENDS Integers, FiniteSets, Sequences, TLC

VARIABLES db, last, life, thr, bus, cache

vars == <<db, last, life, thr, bus, cache>>

----------------------------------------------------------------------------
(* Bounds of the model *)

\* number of bits the model gives a C++ 64-bit integer (uint64_t, long long)
Bits64 == 3

\* cap on the number of offer rows held by the three offer tables together
MaxRows == 2

\* cap on nCounter, the number of instance() calls not yet released
MaxHolds == 2

\* cap on the number of DexDB objects constructed in one run
MaxOpens == 2

\* the most entries a cached reference list has when an add is called
MaxList == 3

\* the longest sequence of addCallBack and removeCallBack calls followed
MaxCalls == 3

Two64 == 2 ^ Bits64

\* width of uint32_t and int, scaled the same way
Bits32 == 2

Two32 == 2 ^ Bits32

\* the epoch seconds the model draws for a timestamp and for time(NULL):
\* non-negative and below 2^63
Times == 0 .. 1

\* uint32_t editingVersion values drawn by the model
Versions == {0, 1}

\* uint256 values drawn for hash and idTransaction (two hex digits wide here)
Hashes == {1, 2}

TxIds == {0, 171}

----------------------------------------------------------------------------
(* Conversions between C++ values and SQLite column values *)

HexDigits == <<"0", "1", "2", "3", "4", "5", "6", "7",
               "8", "9", "a", "b", "c", "d", "e", "f">>

\* uint256::GetHex as used by bindOfferData: the value as hex text
GetHex(n) == <<HexDigits[(n \div 16) + 1], HexDigits[(n % 16) + 1]>>

HexValue(c) == CHOOSE i \in 0 .. 15 : HexDigits[i + 1] = c

\* uint256::SetHex as used by getOffer(it): hex text back to the value
SetHex(s) == HexValue(s[1]) * 16 + HexValue(s[2])

\* static_cast<long long int>(uint64_t): reinterpret as two's complement
ToLongLong(u) == IF u >= Two64 \div 2 THEN u - Two64 ELSE u

\* a long long carried over as it is, the sign kept
KeepSigned(x) == x

\* assignment of a long long to a uint64_t field: reduce modulo 2^64
ToUInt64(x) == x % Two64

\* static_cast<int>(uint32_t): reinterpret as two's complement
ToInt(u) == IF u >= Two32 \div 2 THEN u - Two32 ELSE u

\* static_cast<uint32_t>(int): reduce modulo 2^32
ToUInt32(x) == x % Two32

----------------------------------------------------------------------------
(* The C++ records handed to and returned by the store *)

\* TypeTable tags used by the store for its three offer tables
OfferTables == {"offersSell", "offersBuy", "myOffers"}

RemoteTables == {"offersSell", "offersBuy"}

\* struct OfferInfo as the callers of addOffer/editOffer build it: two
\* samples that differ in every field, the second with magnitudes in the
\* upper half of the unsigned 64-bit range
Sample1(h) ==
    [idTransaction |-> 0, hash |-> h, pubKey |-> "pk1", countryIso |-> "RU",
     currencyIso |-> "RUB", paymentMethod |-> 1, price |-> 1,
     minAmount |-> 0, timeCreate |-> 0, timeToExpiration |-> 0,
     timeModification |-> 0, shortInfo |-> "short1", details |-> "details1",
     editingVersion |-> 0, editsign |-> "sign1"]

Sample2(h) ==
    [idTransaction |-> 171, hash |-> h, pubKey |-> "pk2", countryIso |-> "US",
     currencyIso |-> "USD", paymentMethod |-> 128, price |-> Two64 - 1,
     minAmount |-> Two64 \div 2, timeCreate |-> 1,
     timeToExpiration |-> 1, timeModification |-> 1,
     shortInfo |-> "short2", details |-> "details2",
     editingVersion |-> Two32 - 1, editsign |-> "sign2"]

\* offers that differ in every field
CrudOffers == {Sample1(h) : h \in Hashes} \cup {Sample2(h) : h \in Hashes}

\* offers of every expiration time
SweepOffers ==
    {[Sample1(h) EXCEPT !.timeToExpiration = te] : h \in Hashes, te \in Times}

\* offers of every modification time and editing version
ManifestOffers ==
    {[Sample1(h) EXCEPT !.timeModification = tm, !.editingVersion = v] :
        h \in Hashes, tm \in Times, v \in Versions}

\* MyOfferInfo::getOfferInfo: the OfferInfo part of a local offer
getOfferInfo(my) ==
    [f \in (DOMAIN my) \ {"type", "status"} |-> my[f]]

\* struct MyOfferInfo: OfferInfo plus type and status
MyOffer(o, type, status) == o @@ [type |-> type, status |-> status]

CrudMyOffers ==
    {MyOffer(Sample1(h), "Sell", "Active") : h \in Hashes}
        \cup {MyOffer(Sample2(h), "Buy", "Draft") : h \in Hashes}

SweepMyOffers == {MyOffer(o, "Sell", "Active") : o \in SweepOffers}

ManifestMyOffers == {MyOffer(Sample1(h), "Sell", "Active") : h \in Hashes}

\* DexDB::bindOfferData: the column values bound for an OfferInfo
bindOfferData(offer) ==
    [idTransaction |-> GetHex(offer.idTransaction),
     hash |-> GetHex(offer.hash),
     pubKey |-> offer.pubKey,
     countryIso |-> offer.countryIso,
     currencyIso |-> offer.currencyIso,
     paymentMethod |-> offer.paymentMethod,
     price |-> ToLongLong(offer.price),
     minAmount |-> ToLongLong(offer.minAmount),
     timeCreate |-> ToLongLong(offer.timeCreate),
     timeToExpiration |-> ToLongLong(offer.timeToExpiration),
     timeModification |-> ToLongLong(offer.timeModification),
     shortInfo |-> offer.shortInfo,
     details |-> offer.details,
     editingVersion |-> ToInt(offer.editingVersion),
     editsign |-> offer.editsign]

\* DexDB::addOrEditMyOffer binds: bindOfferData plus :type and :status
bindMyOfferData(offer) ==
    bindOfferData(getOfferInfo(offer))
        @@ [type |-> offer.type, status |-> offer.status]

\* DexDB::getOffer(sqlite3pp::query::iterator&): a row back to an OfferInfo
getOffer_it(row) ==
    [idTransaction |-> SetHex(row.idTransaction),
     hash |-> SetHex(row.hash),
     pubKey |-> row.pubKey,
     countryIso |-> row.countryIso,
     currencyIso |-> row.currencyIso,
     paymentMethod |-> row.paymentMethod,
     price |-> ToUInt64(row.price),
     minAmount |-> ToUInt64(row.minAmount),
     timeCreate |-> ToUInt64(row.timeCreate),
     timeToExpiration |-> ToUInt64(row.timeToExpiration),
     timeModification |-> ToUInt64(row.timeModification),
     shortInfo |-> row.shortInfo,
     details |-> row.details,
     editingVersion |-> ToUInt32(row.editingVersion),
     editsign |-> row.editsign]

\* DexDB::getMyOffer(sqlite3pp::query::iterator&): a row back to a MyOfferInfo
getMyOffer_it(row) ==
    getOffer_it(row) @@ [type |-> row.type, status |-> row.status]

----------------------------------------------------------------------------
(* SQLite statements as the store issues them.  A statement takes the rows *)
(* of its table and yields [status, rows]: the result code of              *)
(* cmd.execute() and the rows afterwards.  0 is SQLITE_OK and 19 is        *)
(* SQLITE_CONSTRAINT; a statement that fails changes nothing.              *)

\* INSERT OR REPLACE INTO <table> (...) VALUES (...): the row of the same
\* hash gives way
SqlInsertOrReplace(rows, row) ==
    [status |-> 0, changes |-> 1,
     rows |-> {r \in rows : r.hash # row.hash} \cup {row}]

\* an INSERT into a table without a key on hash
SqlInsertNoKey(rows, row) ==
    [status |-> 0, changes |-> 1, rows |-> rows \cup {row}]

\* INSERT INTO <table> (...) VALUES (...): hash is the PRIMARY KEY of the
\* three offer tables (templateOffersTable, createTables)
SqlInsert(rows, row) ==
    IF \E r \in rows : r.hash = row.hash
    THEN [status |-> 19, changes |-> 0, rows |-> rows]
    ELSE [status |-> 0, changes |-> 1, rows |-> rows \cup {row}]

\* UPDATE <table> SET <cols> = <bound values> WHERE hash = :hash
SqlUpdateByHash(rows, cols, bound) ==
    LET assigned == [f \in cols |-> bound[f]]
    IN  [status |-> 0,
         changes |-> Cardinality({r \in rows : r.hash = bound.hash}),
         rows |-> {IF r.hash = bound.hash THEN assigned @@ r ELSE r : r \in rows}]

\* the columns of an UPDATE that leaves editingVersion as it is
EditOfferColsKeepVersion ==
    {"hash", "pubKey", "countryIso", "currencyIso", "paymentMethod", "price",
     "minAmount", "timeCreate", "timeToExpiration", "timeModification",
     "shortInfo", "details", "editsign"}

\* the columns editOffer's UPDATE assigns (idTransaction is not among them)
EditOfferCols ==
    {"hash", "pubKey", "countryIso", "currencyIso", "paymentMethod", "price",
     "minAmount", "timeCreate", "timeToExpiration", "timeModification",
     "shortInfo", "details", "editingVersion", "editsign"}

\* the columns editMyOffer's UPDATE assigns (hash and pubKey are not among them)
EditMyOfferCols ==
    {"idTransaction", "countryIso", "currencyIso", "paymentMethod", "price",
     "minAmount", "timeCreate", "timeToExpiration", "timeModification",
     "shortInfo", "details", "type", "status", "editingVersion", "editsign"}

\* DexDB::addOrEditOffer with addOffer's INSERT
addOffer_exec(rows, offer) == SqlInsert(rows, bindOfferData(offer))

\* DexDB::addOrEditOffer with editOffer's UPDATE
editOffer_exec(rows, offer) ==
    SqlUpdateByHash(rows, EditOfferCols, bindOfferData(offer))

\* DexDB::addOrEditMyOffer with addMyOffer's INSERT
addMyOffer_exec(rows, offer) == SqlInsert(rows, bindMyOfferData(offer))

\* DexDB::addOrEditMyOffer with editMyOffer's UPDATE
editMyOffer_exec(rows, offer) ==
    SqlUpdateByHash(rows, EditMyOfferCols, bindMyOfferData(offer))

\* a DELETE by idTransaction that stops at the first row it finds
deleteFirstOffer_exec(rows, idTransaction) ==
    LET found == {r \in rows : r.idTransaction = GetHex(idTransaction)}
    IN  [status |-> 0,
         changes |-> IF found = {} THEN 0 ELSE 1,
         rows |-> IF found = {} THEN rows
                  ELSE rows \ {CHOOSE r \in found : TRUE}]

\* DELETE FROM <table> WHERE idTransaction = ?
deleteOffer_exec(rows, idTransaction) ==
    [status |-> 0,
     changes |-> Cardinality({r \in rows : r.idTransaction = GetHex(idTransaction)}),
     rows |-> {r \in rows : r.idTransaction # GetHex(idTransaction)}]

\* DELETE FROM <table> WHERE hash = ?
deleteOfferByHash_exec(rows, hash) ==
    [status |-> 0,
     changes |-> Cardinality({r \in rows : r.hash = GetHex(hash)}),
     rows |-> {r \in rows : r.hash # GetHex(hash)}]

\* DELETE FROM <table> WHERE timeToExpiration < :currentTime
deleteOlderOffers_exec(rows, currentTime) ==
    [status |-> 0,
     changes |-> Cardinality({r \in rows : r.timeToExpiration < currentTime}),
     rows |-> {r \in rows : ~(r.timeToExpiration < currentTime)}]

\* DELETE FROM <table> WHERE timeToExpiration <= :currentTime
deleteOldOffers_exec(rows, currentTime) ==
    [status |-> 0,
     changes |-> Cardinality({r \in rows : r.timeToExpiration <= currentTime}),
     rows |-> {r \in rows : ~(r.timeToExpiration <= currentTime)}]

\* UPDATE myOffers SET status = :status WHERE timeToExpiration <= :currentTime
setStatusExpiredInclusive_exec(rows, currentTime) ==
    [status |-> 0,
     changes |-> Cardinality({r \in rows : r.timeToExpiration <= currentTime}),
     rows |-> {IF r.timeToExpiration <= currentTime
               THEN [r EXCEPT !.status = "Expired"]
               ELSE r : r \in rows}]

\* UPDATE myOffers SET status = :status WHERE timeToExpiration < :currentTime
setStatusExpiredForMyOffers_exec(rows, currentTime) ==
    [status |-> 0,
     changes |-> Cardinality({r \in rows : r.timeToExpiration < currentTime}),
     rows |-> {IF r.timeToExpiration < currentTime
               THEN [r EXCEPT !.status = "Expired"]
               ELSE r : r \in rows}]

\* an UPDATE of status that sets timeModification as well
editStatusAndTime_exec(rows, idTransaction, statusOffer) ==
    [status |-> 0,
     changes |-> Cardinality({r \in rows : r.idTransaction = GetHex(idTransaction)}),
     rows |-> {IF r.idTransaction = GetHex(idTransaction)
               THEN [r EXCEPT !.status = statusOffer, !.timeModification = 1]
               ELSE r : r \in rows}]

\* UPDATE myOffers SET status = :status WHERE idTransaction = :idTransaction
editStatusForMyOffer_exec(rows, idTransaction, statusOffer) ==
    [status |-> 0,
     changes |-> Cardinality({r \in rows : r.idTransaction = GetHex(idTransaction)}),
     rows |-> {IF r.idTransaction = GetHex(idTransaction)
               THEN [r EXCEPT !.status = statusOffer]
               ELSE r : r \in rows}]

----------------------------------------------------------------------------
(* Schema catalog: createTables, createIndexes and the checks of the       *)
(* constructor                                                             *)

\* the tables createTables declares
AllTables ==
    {"dbversion", "countries", "currencies", "paymentMethods",
     "offersSell", "offersBuy", "myOffers", "filterList"}

\* the indexes createIndexes declares
AllIndexes ==
    {"idx_offersSell_timeexp", "idx_offersBuy_timeexp", "idx_offersMy_timeexp",
     "hash_editing_version_buy", "hash_editing_version_sell",
     "idx_offersSell_timemod", "idx_offersBuy_timemod"}

\* the tables renameTables moves aside and moveTablesData copies back
MovedTables ==
    {"countries", "currencies", "paymentMethods",
     "myOffers", "offersSell", "offersBuy"}

OldName(t) == t \o "_old"

\* dex::uiDexDBversionInCode, the schema version this build expects
uiDexDBversionInCode == 2

\* an empty database file, as SQLITE_OPEN_CREATE makes it
EmptyDb == [tab |-> <<>>, sql |-> <<>>, idx |-> {}]

TablesOf(d) == DOMAIN d.tab

\* a run of CREATE TABLE IF NOT EXISTS statements, one per table of ts, each
\* with the declared column list: the tables that exist stay as they are
CreateAll(d, ts) ==
    [d EXCEPT !.tab = [u \in TablesOf(d) \cup ts |->
                          IF u \in TablesOf(d) THEN d.tab[u] ELSE {}],
              !.sql = [u \in TablesOf(d) \cup ts |->
                          IF u \in TablesOf(d) THEN d.sql[u] ELSE "declared"]]

\* a run of DROP TABLE IF EXISTS statements, one per table of ts
DropAll(d, ts) ==
    [d EXCEPT !.tab = [u \in TablesOf(d) \ ts |-> d.tab[u]],
              !.sql = [u \in TablesOf(d) \ ts |-> d.sql[u]]]

\* a run of ALTER TABLE <t> RENAME TO <t>_old statements, one per table of
\* ts: a statement is an error, and changes nothing, when <t> is missing or
\* <t>_old exists
RenameAll(d, ts) ==
    LET renamed == {t \in ts : t \in TablesOf(d) /\ OldName(t) \notin TablesOf(d)}
        names == (TablesOf(d) \ renamed) \cup {OldName(t) : t \in renamed}
        From(u) == IF u \in TablesOf(d) \ renamed THEN u
                   ELSE CHOOSE t \in renamed : OldName(t) = u
    IN  [d EXCEPT !.tab = [u \in names |-> d.tab[From(u)]],
                  !.sql = [u \in names |-> d.sql[From(u)]]]

\* DexDB::createTables
createTables(d) == CreateAll(d, AllTables)

\* DexDB::createIndexes: every index is on a table createTables has made
createIndexes(d) ==
    [d EXCEPT !.idx = d.idx \cup
        {i \in AllIndexes :
            /\ (i \in {"idx_offersSell_timeexp", "hash_editing_version_sell",
                       "idx_offersSell_timemod"} => "offersSell" \in TablesOf(d))
            /\ (i \in {"idx_offersBuy_timeexp", "hash_editing_version_buy",
                       "idx_offersBuy_timemod"} => "offersBuy" \in TablesOf(d))
            /\ (i = "idx_offersMy_timeexp" => "myOffers" \in TablesOf(d))}]

\* DexDB::dropIndexes
dropIndexes(d) == [d EXCEPT !.idx = d.idx \ AllIndexes]

\* DexDB::renameTables
renameTables(d) == RenameAll(d, MovedTables)

\* a dropTables that drops filterList with the others
dropEveryTable(d) == DropAll(d, AllTables)

\* DexDB::dropTables
dropTables(d) == DropAll(d, AllTables \ {"filterList"})

\* DexDB::dropOldTables
dropOldTables(d) ==
    DropAll(d, {OldName(t) : t \in MovedTables})

\* DexDB::isDexDbEmpty: sqlite_master lists nothing
isDexDbEmpty(d) == TablesOf(d) = {} /\ d.idx = {}

\* the version DexDB::isDexDbOutdated reads: the first row of dbversion, 0
\* when there is none
iDBversion(d) ==
    IF d.tab["dbversion"] = {} THEN 0
    ELSE (CHOOSE r \in d.tab["dbversion"] : TRUE).version

\* a test that takes only a lower version for outdated
isDexDbOlder(d) == iDBversion(d) < uiDexDBversionInCode

\* DexDB::isDexDbOutdated
isDexDbOutdated(d) == uiDexDBversionInCode # iDBversion(d)

\* a constructor that does not compare the schema
schemaUnchecked(d) == FALSE

\* DexDB::checkDexDbSchema: TRUE when it throws
checkDexDbSchema_throws(d) ==
    LET dbm == createIndexes(createTables(EmptyDb))
    IN  \/ TablesOf(d) # TablesOf(dbm)
        \/ d.idx # dbm.idx
        \/ \E t \in TablesOf(d) : d.sql[t] # dbm.sql[t]

----------------------------------------------------------------------------
(* Seed data and the constructor                                           *)

\* DefaultDataForDb::dataCurrencies, sorted by sortOrder
DefaultCurrencies ==
    <<[iso |-> "RUB", name |-> "Ruble", symbol |-> "R", enabled |-> TRUE, sortOrder |-> 0],
      [iso |-> "USD", name |-> "Dollar", symbol |-> "$", enabled |-> TRUE, sortOrder |-> 1]>>

\* DefaultDataForDb::dataCountries, sorted by name and then by sortOrder
DefaultCountries ==
    <<[iso |-> "RU", name |-> "Russia", currency |-> "RUB"],
      [iso |-> "US", name |-> "USA", currency |-> "USD"]>>

\* DefaultDataForDb::dataPaymentMethods
DefaultPaymentMethods ==
    <<[type |-> 1, name |-> "Cash", description |-> "cash", sortOrder |-> 0],
      [type |-> 128, name |-> "Online", description |-> "online", sortOrder |-> 1]>>

\* DexDB::tableCount
tableCount(d, t) == Cardinality(d.tab[t])

\* an INSERT into dbversion that stores nothing
addDbVersionNone(d, v) == d

\* DexDB::addDbVersion
addDbVersion(d, v) ==
    [d EXCEPT !.tab["dbversion"] = @ \cup {[version |-> v]}]

\* the INSERT of DexDB::addCurrency: id is the INTEGER PRIMARY KEY (rowid),
\* iso is UNIQUE
addCurrency_exec(rows, c) ==
    IF \E r \in rows : r.iso = c.iso THEN [status |-> 19, rows |-> rows]
    ELSE LET ids == {r.id : r \in rows}
             id == IF ids = {} THEN 1
                   ELSE 1 + (CHOOSE m \in ids : \A k \in ids : k <= m)
         IN  [status |-> 0,
              rows |-> rows \cup {[id |-> id, iso |-> c.iso, name |-> c.name,
                                   symbol |-> c.symbol, enabled |-> c.enabled,
                                   sortOrder |-> c.sortOrder]}]

\* the INSERT ... SELECT of DexDB::addCountry: one row per currency row whose
\* iso is :currencyIso; iso is the PRIMARY KEY of countries
addCountry_exec(rows, currencies, c, sortOrder) ==
    LET sel == {[iso |-> c.iso, name |-> c.name, currencyId |-> cur.id,
                 enabled |-> c.enabled, sortOrder |-> sortOrder] :
                    cur \in {x \in currencies : x.iso = c.currency}}
    IN  IF sel # {} /\ \E r \in rows : r.iso = c.iso
        THEN [status |-> 19, rows |-> rows]
        ELSE [status |-> 0, rows |-> rows \cup sel]

\* the INSERT of DexDB::addPaymentMethod: type is the PRIMARY KEY
addPaymentMethod_exec(rows, m) ==
    IF \E r \in rows : r.type = m.type THEN [status |-> 19, rows |-> rows]
    ELSE [status |-> 0, rows |-> rows \cup {m}]

RECURSIVE SeedCurrencies(_, _)
SeedCurrencies(rows, i) ==
    IF i > Len(DefaultCurrencies) THEN rows
    ELSE SeedCurrencies(addCurrency_exec(rows, DefaultCurrencies[i]).rows, i + 1)

RECURSIVE SeedCountries(_, _, _)
SeedCountries(rows, currencies, i) ==
    IF i > Len(DefaultCountries) THEN rows
    ELSE SeedCountries(
            addCountry_exec(rows, currencies,
                [iso |-> DefaultCountries[i].iso, name |-> DefaultCountries[i].name,
                 currency |-> DefaultCountries[i].currency, enabled |-> TRUE],
                i - 1).rows,
            currencies, i + 1)

RECURSIVE SeedPaymentMethods(_, _)
SeedPaymentMethods(rows, i) ==
    IF i > Len(DefaultPaymentMethods) THEN rows
    ELSE SeedPaymentMethods(
            addPaymentMethod_exec(rows, DefaultPaymentMethods[i]).rows, i + 1)

\* DexDB::addDefaultData: each empty table is seeded, in this order
addDefaultData(d) ==
    LET d1 == IF tableCount(d, "dbversion") <= 0
              THEN addDbVersion(d, uiDexDBversionInCode) ELSE d
        d2 == IF tableCount(d1, "currencies") <= 0
              THEN [d1 EXCEPT !.tab["currencies"] = SeedCurrencies(@, 1)] ELSE d1
        d3 == IF tableCount(d2, "countries") <= 0
              THEN [d2 EXCEPT !.tab["countries"] =
                        SeedCountries(@, d2.tab["currencies"], 1)]
              ELSE d2
    IN  IF tableCount(d3, "paymentMethods") <= 0
        THEN [d3 EXCEPT !.tab["paymentMethods"] = SeedPaymentMethods(@, 1)]
        ELSE d3

----------------------------------------------------------------------------
(* Migration                                                               *)

\* column order of offersSell and offersBuy (templateOffersTable)
OfferColumns ==
    <<"idTransaction", "hash", "pubKey", "countryIso", "currencyIso",
      "paymentMethod", "price", "minAmount", "timeCreate", "timeToExpiration",
      "timeModification", "shortInfo", "details", "editingVersion", "editsign">>

\* column order of myOffers (createTables)
MyOfferColumns ==
    <<"hash", "idTransaction", "pubKey", "countryIso", "currencyIso",
      "paymentMethod", "price", "minAmount", "timeCreate", "timeToExpiration",
      "timeModification", "shortInfo", "details", "type", "status",
      "editingVersion", "editsign">>

\* the SELECT list moveTablesData reads from offersSell_old and offersBuy_old
OfferSelectList ==
    <<"idTransaction", "hash", "pubKey", "countryIso", "currencyIso",
      "paymentMethod", "price", "minAmount", "timeCreate", "timeToExpiration",
      "timeCreate", "shortInfo", "details", "editingVersion", "editsign">>

\* the SELECT list moveTablesData reads from myOffers_old
MyOfferSelectList ==
    <<"hash", "idTransaction", "pubKey", "countryIso", "currencyIso",
      "paymentMethod", "price", "minAmount", "timeCreate", "timeToExpiration",
      "timeCreate", "shortInfo", "details", "type", "status",
      "editingVersion", "editsign">>

\* INSERT INTO <t> SELECT <list> FROM ...: the i-th selected value goes to
\* the i-th column of <t>
Positional(cols, list, r) ==
    [c \in {cols[i] : i \in 1 .. Len(cols)} |->
        r[list[CHOOSE i \in 1 .. Len(cols) : cols[i] = c]]]

\* INSERT INTO <t> SELECT * FROM <t>_old: the row as it is
CopiedRow(t, r) == r

\* the row one INSERT ... SELECT of moveTablesData makes of a legacy row
MovedRow(t, r) ==
    IF t = "myOffers" THEN Positional(MyOfferColumns, MyOfferSelectList, r)
    ELSE IF t \in RemoteTables THEN Positional(OfferColumns, OfferSelectList, r)
    ELSE r

\* the column the PRIMARY KEY of table t is on
KeyOf(t) ==
    IF t \in OfferTables THEN "hash"
    ELSE IF t = "paymentMethods" THEN "type"
    ELSE IF t = "currencies" THEN "id" ELSE "iso"

\* whether one db.execute of moveTablesData is an error: the engine
\* rejects it (t \in failed), a table is missing or a copied row collides
\* with a key
MoveFails(d, t, failed) ==
    \/ t \in failed
    \/ t \notin TablesOf(d)
    \/ OldName(t) \notin TablesOf(d)
    \/ LET moved == {MovedRow(t, r) : r \in d.tab[OldName(t)]}
           k == KeyOf(t)
       IN  \/ \E m \in moved : \E r \in d.tab[t] : r[k] = m[k]
           \/ \E m1 \in moved : \E m2 \in moved : m1 # m2 /\ m1[k] = m2[k]

\* a moveTablesData that copies nothing
moveNoData(d, failed) == d

\* DexDB::moveTablesData: one INSERT ... SELECT per table; a statement that
\* is an error changes nothing, and no result code is looked at
moveTablesData(d, failed) ==
    [d EXCEPT !.tab = [t \in TablesOf(d) |->
        IF t \in MovedTables /\ ~MoveFails(d, t, failed)
        THEN d.tab[t] \cup {MovedRow(t, r) : r \in d.tab[OldName(t)]}
        ELSE d.tab[t]]]

\* the body of `if (isDexDbOutdated())` in the constructor, up to tx.commit()
Migrate(d, failed) ==
    addDefaultData(
      dropOldTables(
        createIndexes(
          moveTablesData(
            createTables(dropTables(renameTables(dropIndexes(d)))),
            failed))))

\* the file when the migration reaches its addDefaultData()
MigrateMoved(d, failed) ==
    dropOldTables(
      createIndexes(
        moveTablesData(
          createTables(dropTables(renameTables(dropIndexes(d)))),
          failed)))

\* the members the constructor sets before it looks at the file: empty
\* lists, every isGet...DataFromDB flag true
EmptyCache ==
    [countries |-> <<>>, currencies |-> <<>>, payments |-> <<>>,
     isGetCountriesDataFromDB |-> TRUE,
     isGetCurrenciesDataFromDB |-> TRUE,
     isGetPaymentsDataFromDB |-> TRUE]

\* the lists and flags DexDB::addDefaultData leaves when run on the file d:
\* it clears the lists and sets the flags, and for each empty table the
\* add... calls of the seeding push the seed items and the flag is cleared
addDefaultData_cache(d) ==
    [countries |->
        IF tableCount(d, "countries") <= 0
        THEN [i \in 1 .. Len(DefaultCountries) |->
                [iso |-> DefaultCountries[i].iso,
                 name |-> DefaultCountries[i].name, enabled |-> TRUE]]
        ELSE <<>>,
     currencies |->
        IF tableCount(d, "currencies") <= 0
        THEN [i \in 1 .. Len(DefaultCurrencies) |->
                [iso |-> DefaultCurrencies[i].iso,
                 name |-> DefaultCurrencies[i].name,
                 symbol |-> DefaultCurrencies[i].symbol,
                 enabled |-> DefaultCurrencies[i].enabled]]
        ELSE <<>>,
     payments |->
        IF tableCount(d, "paymentMethods") <= 0
        THEN [i \in 1 .. Len(DefaultPaymentMethods) |->
                [type |-> DefaultPaymentMethods[i].type,
                 name |-> DefaultPaymentMethods[i].name,
                 description |-> DefaultPaymentMethods[i].description]]
        ELSE <<>>,
     isGetCountriesDataFromDB |-> ~(tableCount(d, "countries") <= 0),
     isGetCurrenciesDataFromDB |-> ~(tableCount(d, "currencies") <= 0),
     isGetPaymentsDataFromDB |-> ~(tableCount(d, "paymentMethods") <= 0)]

\* the lists and flags of the object DexDB::DexDB builds on the file d
DexDB_ctor_cache(d, env) ==
    LET created == isDexDbEmpty(d)
        d1 == IF created THEN addDefaultData(createIndexes(createTables(d)))
              ELSE d
        c1 == IF created
              THEN addDefaultData_cache(createIndexes(createTables(d)))
              ELSE EmptyCache
    IN  IF env.integrityOk /\ isDexDbOutdated(d1)
        THEN addDefaultData_cache(MigrateMoved(d1, env.failed))
        ELSE c1

\* whether some db.execute of the migration returns an error
MigrateErrors(d, failed) ==
    \/ \E t \in MovedTables : t \notin TablesOf(d) \/ OldName(t) \in TablesOf(d)
    \/ \E t \in MovedTables :
          MoveFails(createTables(dropTables(renameTables(dropIndexes(d)))), t, failed)

\* DexDB::DexDB on the database file d.  env.integrityOk tells whether
\* PRAGMA integrity_check answers "ok", env.failed names the tables whose
\* INSERT ... SELECT in moveTablesData the engine rejects.  Yields the file
\* afterwards, whether the constructor threw, the branch taken after the
\* integrity check and whether a statement of the migration was an error.
DexDB_ctor(d, env) ==
    LET d1 == IF isDexDbEmpty(d)
              THEN addDefaultData(createIndexes(createTables(d)))
              ELSE d
    IN  IF ~env.integrityOk
        THEN [db |-> d1, thrown |-> TRUE, path |-> "integrity", errors |-> FALSE]
        ELSE IF isDexDbOutdated(d1)
        THEN [db |-> Migrate(d1, env.failed), thrown |-> FALSE,
              path |-> "migrate", errors |-> MigrateErrors(d1, env.failed)]
        ELSE [db |-> d1, thrown |-> checkDexDbSchema_throws(d1),
              path |-> "check", errors |-> FALSE]

----------------------------------------------------------------------------
(* Reads                                                                   *)

\* what a point lookup yields when its SELECT finds no row
NoRow == [hash |-> "none"]

\* DexDB::getOfferByHash: SELECT ... WHERE hash = "<hex>", first row
getOfferByHash(rows, hash) ==
    LET found == {r \in rows : r.hash = GetHex(hash)}
    IN  IF found = {} THEN NoRow ELSE getOffer_it(CHOOSE r \in found : TRUE)

\* DexDB::getMyOfferByHash
getMyOfferByHash(rows, hash) ==
    LET found == {r \in rows : r.hash = GetHex(hash)}
    IN  IF found = {} THEN NoRow ELSE getMyOffer_it(CHOOSE r \in found : TRUE)

\* enum OffersPeriod
OffersPeriod == {"All", "Before", "After"}

\* the same query with `<=` in the Before clause
getHashsBeforeInclusive(rows, from, timeMod) ==
    LET sel == IF from = "Before"
               THEN {r \in rows : r.timeModification <= timeMod}
               ELSE IF from = "After"
               THEN {r \in rows : r.timeModification >= timeMod}
               ELSE rows
    IN  {<<SetHex(r.hash), ToUInt32(r.editingVersion)>> : r \in sel}

\* the same query with `>` in the After clause
getHashsAfterExclusive(rows, from, timeMod) ==
    LET sel == IF from = "Before"
               THEN {r \in rows : r.timeModification < timeMod}
               ELSE IF from = "After"
               THEN {r \in rows : r.timeModification > timeMod}
               ELSE rows
    IN  {<<SetHex(r.hash), ToUInt32(r.editingVersion)>> : r \in sel}

\* DexDB::getHashsAndEditingVersions: SELECT DISTINCT hash, editingVersion
\* with the WHERE clause of the period; the pairs as a set
getHashsAndEditingVersions(rows, from, timeMod) ==
    LET sel == IF from = "Before"
               THEN {r \in rows : r.timeModification < timeMod}
               ELSE IF from = "After"
               THEN {r \in rows : r.timeModification >= timeMod}
               ELSE rows
    IN  {<<SetHex(r.hash), ToUInt32(r.editingVersion)>> : r \in sel}

----------------------------------------------------------------------------
(* The operations of an open store                                         *)

\* the TypeTable tag addOffer and editOffer derive from tableName
TagOfAddEdit(tableName) ==
    IF tableName = "offersBuy" THEN "OffersBuy" ELSE "OffersSell"

\* the TypeTable tag the delete operations derive from tableName
TagOfDelete(tableName) ==
    IF tableName = "offersBuy" THEN "OffersBuy"
    ELSE IF tableName = "myOffers" THEN "MyOffers" ELSE "OffersSell"

\* a CallBackDB* that is nullptr
NullObserver == "nullptr"

\* the CallBackDB objects of the model
Observers == {"o1", "o2"}

\* DexDB::finishTableOperation: throws DexDBException when status is not 0;
\* otherwise s is Ok, or Error when status is 1, and is handed to the
\* observers
finishTableOperation(tables, operation, status) ==
    [thrown |-> status # 0, tag |-> tables, kind |-> operation,
     s |-> IF status = 1 THEN "Error" ELSE "Ok"]

\* the calls of CallBackDB::finishTableOperation one run of
\* DexDB::finishTableOperation makes: none when it throws, else one for
\* every key of callBack that is not nullptr
Delivered(callBack, fin) ==
    IF fin.thrown THEN {}
    ELSE {[observer |-> o, table |-> fin.tag, operation |-> fin.kind,
           status |-> fin.s] : o \in (DOMAIN callBack) \ {NullObserver}}

\* a loop that calls an observer once for every registration of it
DeliveredPerRegistration(callBack, fin) ==
    IF fin.thrown THEN [o \in {} |-> 0]
    ELSE [o \in (DOMAIN callBack) \ {NullObserver} |-> callBack[o]]

\* how many times one run of DexDB::finishTableOperation calls each
\* observer: `for (auto &item : callBack)` visits every entry of the map
\* once, whatever its count
DeliveredTimes(callBack, fin) ==
    IF fin.thrown THEN [o \in {} |-> 0]
    ELSE [o \in (DOMAIN callBack) \ {NullObserver} |-> 1]

\* the end of an operation on the offer tables: the observers are called,
\* the singleton, the threads and the reference caches stay as they are
Notify(fin) ==
    /\ bus' = [bus EXCEPT !.delivered = Delivered(bus.callBack, fin),
                          !.times = DeliveredTimes(bus.callBack, fin)]
    /\ UNCHANGED <<life, thr, cache>>

NoArg == "none"

\* the record of a completed call: its name and table, the key it was given
\* (the hash of the offer for an add or edit, else the transaction id, hash
\* or current time), the result code of its statement, the number of rows
\* the statement changed (sqlite3_changes) and what finishTableOperation
\* made of the result code
Done(op, t, key, fin, res) ==
    [op |-> op, table |-> t, key |-> key, status |-> res.status,
     changes |-> res.changes,
     thrown |-> fin.thrown, tag |-> fin.tag, kind |-> fin.kind]

TotalRows == Cardinality(UNION {db.tab[t] : t \in OfferTables})

\* room for one more row (the cap of the model), or the INSERT fails anyway
MayInsert(t, hash) ==
    \/ TotalRows < MaxRows
    \/ \E r \in db.tab[t] : r.hash = GetHex(hash)

\* DexDB::addOffer (addOfferSell, addOfferBuy)
addOffer(tableName, offer) ==
    /\ MayInsert(tableName, offer.hash)
    /\ LET res == addOffer_exec(db.tab[tableName], offer)
           fin == finishTableOperation(TagOfAddEdit(tableName), "Add", res.status)
       IN  /\ db' = [db EXCEPT !.tab[tableName] = res.rows]
           /\ last' = Done("addOffer", tableName, offer.hash, fin, res)
           /\ Notify(fin)

\* DexDB::editOffer (editOfferSell, editOfferBuy)
editOffer(tableName, offer) ==
    LET res == editOffer_exec(db.tab[tableName], offer)
        fin == finishTableOperation(TagOfAddEdit(tableName), "Edit", res.status)
    IN  /\ db' = [db EXCEPT !.tab[tableName] = res.rows]
        /\ last' = Done("editOffer", tableName, offer.hash, fin, res)
        /\ Notify(fin)

\* DexDB::addMyOffer
addMyOffer(offer) ==
    /\ MayInsert("myOffers", offer.hash)
    /\ LET res == addMyOffer_exec(db.tab["myOffers"], offer)
           fin == finishTableOperation("MyOffers", "Add", res.status)
       IN  /\ db' = [db EXCEPT !.tab["myOffers"] = res.rows]
           /\ last' = Done("addMyOffer", "myOffers", offer.hash, fin, res)
           /\ Notify(fin)

\* DexDB::editMyOffer
editMyOffer(offer) ==
    LET res == editMyOffer_exec(db.tab["myOffers"], offer)
        fin == finishTableOperation("MyOffers", "Edit", res.status)
    IN  /\ db' = [db EXCEPT !.tab["myOffers"] = res.rows]
        /\ last' = Done("editMyOffer", "myOffers", offer.hash, fin, res)
        /\ Notify(fin)

\* a delete by idTransaction that runs on every offer table
deleteOfferEverywhere(tableName, idTransaction) ==
    LET res == deleteOffer_exec(db.tab[tableName], idTransaction)
        fin == finishTableOperation(TagOfDelete(tableName), "Delete", res.status)
    IN  /\ db' = [db EXCEPT !.tab =
                    [t \in DOMAIN db.tab |->
                        IF t \in OfferTables
                        THEN deleteOffer_exec(db.tab[t], idTransaction).rows
                        ELSE db.tab[t]]]
        /\ last' = Done("deleteOffer", tableName, idTransaction, fin, res)
        /\ Notify(fin)

\* DexDB::deleteOffer (deleteOfferSell, deleteOfferBuy, deleteMyOffer)
deleteOffer(tableName, idTransaction) ==
    LET res == deleteOffer_exec(db.tab[tableName], idTransaction)
        fin == finishTableOperation(TagOfDelete(tableName), "Delete", res.status)
    IN  /\ db' = [db EXCEPT !.tab[tableName] = res.rows]
        /\ last' = Done("deleteOffer", tableName, idTransaction, fin, res)
        /\ Notify(fin)

\* DexDB::deleteOfferByHash (deleteOfferSellByHash, deleteOfferBuyByHash,
\* deleteMyOfferByHash)
deleteOfferByHash(tableName, hash) ==
    LET res == deleteOfferByHash_exec(db.tab[tableName], hash)
        fin == finishTableOperation(TagOfDelete(tableName), "Delete", res.status)
    IN  /\ db' = [db EXCEPT !.tab[tableName] = res.rows]
        /\ last' = Done("deleteOfferByHash", tableName, hash, fin, res)
        /\ Notify(fin)

\* DexDB::deleteOldOffers (deleteOldOffersSell, deleteOldOffersBuy,
\* deleteOldMyOffers); currentTime is what time(NULL) returns
deleteOldOffers(tableName, currentTime) ==
    LET res == deleteOldOffers_exec(db.tab[tableName], currentTime)
        fin == finishTableOperation(TagOfDelete(tableName), "Delete", res.status)
    IN  /\ db' = [db EXCEPT !.tab[tableName] = res.rows]
        /\ last' = Done("deleteOldOffers", tableName, currentTime, fin, res)
        /\ Notify(fin)

\* DexDB::setStatusExpiredForMyOffers; currentTime is what time(NULL) returns
setStatusExpiredForMyOffers(currentTime) ==
    LET res == setStatusExpiredForMyOffers_exec(db.tab["myOffers"], currentTime)
        fin == finishTableOperation("MyOffers", "Edit", res.status)
    IN  /\ db' = [db EXCEPT !.tab["myOffers"] = res.rows]
        /\ last' = Done("setStatusExpiredForMyOffers", "myOffers", currentTime,
                        fin, res)
        /\ Notify(fin)

\* DexDB::editStatusForMyOffer
editStatusForMyOffer(idTransaction, statusOffer) ==
    LET res == editStatusForMyOffer_exec(db.tab["myOffers"], idTransaction, statusOffer)
        fin == finishTableOperation("MyOffers", "Edit", res.status)
    IN  /\ db' = [db EXCEPT !.tab["myOffers"] = res.rows]
        /\ last' = Done("editStatusForMyOffer", "myOffers", idTransaction,
                        fin, res)
        /\ Notify(fin)

----------------------------------------------------------------------------
(* The store in use: opened on an empty file, then any operations          *)

NoEnv == [integrityOk |-> TRUE, failed |-> {}]

\* one object, built by the one instance() call so far
OpenedLife == [pSingleton |-> 1, nCounter |-> 1, opened |-> 1, live |-> {1}]

\* the threads of the model
Threads == {"t1", "t2"}

\* no thread is inside instance() or freeInstance(), none holds a handle
IdleThreads == [t \in Threads |-> [pc |-> "idle", obj |-> 0, tmp |-> 0, held |-> <<>>]]

\* no observer registered, none called, no addCallBack or removeCallBack yet
EmptyBus ==
    [callBack |-> [o \in {} |-> 0], delivered |-> {}, calls |-> <<>>,
     times |-> [o \in {} |-> 0]]

Init ==
    /\ life = OpenedLife
    /\ thr = IdleThreads
    /\ bus = EmptyBus
    /\ cache = DexDB_ctor_cache(EmptyDb, NoEnv)
    /\ db = DexDB_ctor(EmptyDb, NoEnv).db
    /\ last = [op |-> "DexDB", table |-> NoArg, key |-> "create", status |-> 0,
               changes |-> 0,
               thrown |-> FALSE, tag |-> NoArg, kind |-> NoArg]

\* any operation of the open store, its offers drawn from the given sets
NextWith(offers, myOffers, statuses) ==
    \/ \E t \in RemoteTables, offer \in offers : addOffer(t, offer)
    \/ \E t \in RemoteTables, offer \in offers : editOffer(t, offer)
    \/ \E offer \in myOffers : addMyOffer(offer)
    \/ \E offer \in myOffers : editMyOffer(offer)
    \/ \E t \in OfferTables, id \in TxIds : deleteOffer(t, id)
    \/ \E t \in OfferTables, h \in Hashes : deleteOfferByHash(t, h)
    \/ \E t \in OfferTables, now \in Times : deleteOldOffers(t, now)
    \/ \E now \in Times : setStatusExpiredForMyOffers(now)
    \/ \E id \in TxIds, st \in statuses : editStatusForMyOffer(id, st)

Next == NextWith(CrudOffers, CrudMyOffers, {"Draft"})

Spec == Init /\ [][Next]_vars

NextSweep == NextWith(SweepOffers, SweepMyOffers, {"Active"})

SpecSweep == Init /\ [][NextSweep]_vars

NextManifest == NextWith(ManifestOffers, ManifestMyOffers, {"Draft"})

SpecManifest == Init /\ [][NextManifest]_vars

----------------------------------------------------------------------------
(* Opening a database file left by an earlier run                          *)

\* a row of a legacy offer table: the columns of today, timeModification
\* holding whatever the old version kept there
LegacyRow(h, tc, tm) ==
    [bindOfferData(Sample2(h)) EXCEPT !.timeCreate = tc, !.timeModification = tm]

LegacyOfferRows ==
    {{}, {LegacyRow(1, 0, 1)}, {LegacyRow(1, 1, 0), LegacyRow(2, 0, 0)}}

LegacyMyOfferRows ==
    {{r @@ [type |-> "Buy", status |-> "Active"] : r \in rows} :
        rows \in LegacyOfferRows}

\* the store a run of this build leaves on an empty file
FreshDb == DexDB_ctor(EmptyDb, [integrityOk |-> TRUE, failed |-> {}]).db

\* the reference rows found on disk: the seed data, or the seed data after
\* the user disabled a currency and removed a country
DiskReference ==
    {[t \in {"countries", "currencies", "paymentMethods"} |-> FreshDb.tab[t]],
     [t \in {"countries", "currencies", "paymentMethods"} |->
        IF t = "currencies"
        THEN {IF r.iso = "USD" THEN [r EXCEPT !.enabled = FALSE] ELSE r :
                r \in FreshDb.tab[t]}
        ELSE IF t = "countries" THEN {r \in FreshDb.tab[t] : r.iso # "US"}
        ELSE FreshDb.tab[t]]}

\* the versions found in the dbversion row on disk
DiskVersions ==
    {uiDexDBversionInCode - 1, uiDexDBversionInCode, uiDexDBversionInCode + 1}

\* the database files the constructor may find: an empty file, or the
\* tables and indexes of some version of the program
DiskStores ==
    {EmptyDb} \cup
    {[tab |-> [t \in AllTables |->
                IF t = "dbversion" THEN {[version |-> v]}
                ELSE IF t = "filterList" THEN fl
                ELSE IF t = "offersSell" THEN sell
                ELSE IF t = "offersBuy" THEN buy
                ELSE IF t = "myOffers" THEN my
                ELSE ref[t]],
      sql |-> [t \in AllTables |->
                IF t \in OfferTables /\ v # uiDexDBversionInCode
                THEN "legacy" ELSE shape],
      idx |-> AllIndexes] :
        v \in DiskVersions, fl \in {{}, {[filter |-> "f1"]}},
        sell \in LegacyOfferRows, buy \in LegacyOfferRows,
        my \in LegacyMyOfferRows, ref \in DiskReference,
        shape \in {"declared", "edited"}}

\* what the engine does during one run of the constructor
Envs ==
    {[integrityOk |-> ok, failed |-> f] :
        ok \in BOOLEAN, f \in {{}} \cup {{t} : t \in MovedTables}}

NotOpened ==
    [op |-> "none", table |-> NoArg, key |-> NoArg, status |-> 0, changes |-> 0,
     thrown |-> FALSE, tag |-> NoArg, kind |-> NoArg]

\* the statics before the first instance(): no object, no holder
ClosedLife == [pSingleton |-> 0, nCounter |-> 0, opened |-> 0, live |-> {}]

InitMigrate ==
    /\ life = ClosedLife
    /\ thr = IdleThreads
    /\ bus = EmptyBus
    /\ cache = EmptyCache
    /\ db \in DiskStores
    /\ last = NotOpened

\* DexDB::DexDB, run by the first DexDB::instance()
DexDB(env) ==
    /\ last.op = "none"
    /\ cache' = DexDB_ctor_cache(db, env)
    /\ UNCHANGED <<life, thr, bus>>
    /\ LET res == DexDB_ctor(db, env)
       IN  /\ db' = res.db
           /\ last' = [op |-> "DexDB", table |-> NoArg, key |-> res.path,
                       status |-> IF res.errors THEN 1 ELSE 0, changes |-> 0,
                       thrown |-> res.thrown, tag |-> NoArg, kind |-> NoArg,
                       found |-> IF isDexDbEmpty(db) THEN uiDexDBversionInCode
                                 ELSE iDBversion(db)]

NextMigrate == \E env \in Envs : DexDB(env)

SpecMigrate == InitMigrate /\ [][NextMigrate]_vars

----------------------------------------------------------------------------
(* The singleton: instance() and freeInstance() called one after another   *)

\* a freeInstance() that deletes the object on every release
freeInstanceEager_exec(l) ==
    IF l.nCounter > 0
    THEN [l EXCEPT !.nCounter = @ - 1, !.pSingleton = 0,
                   !.live = @ \ {l.pSingleton}]
    ELSE l

\* a freeInstance without the test of nCounter
freeInstanceUnguarded_exec(l) ==
    IF l.nCounter - 1 = 0
    THEN [l EXCEPT !.nCounter = 0, !.pSingleton = 0, !.live = @ \ {l.pSingleton}]
    ELSE [l EXCEPT !.nCounter = @ - 1]

\* DexDB::freeInstance on the statics l: with holders left, one fewer; the
\* object is deleted and pSingleton reset when the last one goes
freeInstance_exec(l) ==
    IF l.nCounter > 0
    THEN IF l.nCounter - 1 = 0
         THEN [l EXCEPT !.nCounter = 0, !.pSingleton = 0,
                        !.live = @ \ {l.pSingleton}]
         ELSE [l EXCEPT !.nCounter = @ - 1]
    ELSE l

\* DexDB::instance on the statics l when pSingleton is set, or when
\* `new DexDB()` has just built the object made: nCounter++
instance_exec(l, made) ==
    IF l.pSingleton = 0
    THEN [pSingleton |-> made, nCounter |-> l.nCounter + 1,
          opened |-> l.opened + 1, live |-> l.live \cup {made}]
    ELSE [l EXCEPT !.nCounter = @ + 1]

\* the record of a completed instance() or freeInstance(): key is the
\* handle returned, or pSingleton after the release
LifeDone(op, handle, thrown) ==
    [op |-> op, table |-> NoArg, key |-> handle, status |-> 0, changes |-> 0,
     thrown |-> thrown, tag |-> NoArg, kind |-> NoArg]

\* DexDB::instance; env is what the engine does if the constructor runs.
\* When the constructor throws, pSingleton and nCounter are not assigned.
\* The record of the call says which way the constructor went, if it ran.
instance(env) ==
    /\ life.nCounter < MaxHolds
    /\ life.pSingleton = 0 => life.opened < MaxOpens
    /\ UNCHANGED <<thr, bus>>
    /\ IF life.pSingleton = 0
       THEN LET res == DexDB_ctor(db, env)
            IN  /\ db' = res.db
                /\ life' = IF res.thrown THEN life
                           ELSE instance_exec(life, life.opened + 1)
                /\ cache' = IF res.thrown THEN cache
                            ELSE DexDB_ctor_cache(db, env)
                /\ last' = LifeDone("instance",
                                    IF res.thrown THEN 0 ELSE life.opened + 1,
                                    res.thrown) @@ [path |-> res.path]
       ELSE /\ life' = instance_exec(life, 0)
            /\ last' = LifeDone("instance", life.pSingleton, FALSE)
                           @@ [path |-> NoArg]
            /\ UNCHANGED <<db, cache>>

\* a freeInstance that empties callBack with the object
freeInstanceWithObservers ==
    /\ life' = freeInstance_exec(life)
    /\ cache' = IF life'.pSingleton = 0 THEN EmptyCache ELSE cache
    /\ last' = LifeDone("freeInstance", life'.pSingleton, FALSE)
    /\ bus' = IF life'.pSingleton = 0 THEN EmptyBus ELSE bus
    /\ UNCHANGED <<db, thr>>

\* DexDB::freeInstance; the lists and flags go with the object
freeInstance ==
    /\ life' = freeInstance_exec(life)
    /\ cache' = IF life'.pSingleton = 0 THEN EmptyCache ELSE cache
    /\ last' = LifeDone("freeInstance", life'.pSingleton, FALSE)
    /\ UNCHANGED <<db, thr, bus>>

\* the files the first instance() may find: none, one this build left, or
\* one of another version with sell offers
LifeStores ==
    {EmptyDb} \cup
    {d \in DiskStores \ {EmptyDb} :
        d.tab["offersBuy"] = {} /\ d.tab["myOffers"] = {}
            /\ d.tab["filterList"] = {}}

LifeEnvs == {[integrityOk |-> ok, failed |-> {}] : ok \in BOOLEAN}

InitLife ==
    /\ life = ClosedLife
    /\ thr = IdleThreads
    /\ bus = EmptyBus
    /\ cache = EmptyCache
    /\ db \in LifeStores
    /\ last = NotOpened

NextLife ==
    \/ \E env \in LifeEnvs : instance(env)
    \/ freeInstance

SpecLife == InitLife /\ [][NextLife]_vars

----------------------------------------------------------------------------
(* The singleton under threads: instance() and freeInstance() take no      *)
(* lock, so the reads and writes of pSingleton and nCounter by different   *)
(* threads interleave.  Each action is one access of the shared statics.   *)

\* thread t moves to pc, the rest of it as given
Step(t, pc, obj, tmp, held) ==
    thr' = [thr EXCEPT ![t] = [pc |-> pc, obj |-> obj, tmp |-> tmp, held |-> held]]

\* instance(): `if (pSingleton == nullptr)`
InstanceTest(t) ==
    /\ thr[t].pc = "idle" /\ Len(thr[t].held) < MaxHolds
    /\ Step(t, IF life.pSingleton = 0 THEN "construct" ELSE "count",
            0, 0, thr[t].held)
    /\ UNCHANGED <<db, last, life, bus, cache>>

\* instance(): `pSingleton = new DexDB();` an object another thread stored
\* there in the meantime is overwritten and stays allocated
InstanceConstruct(t) ==
    /\ thr[t].pc = "construct" /\ life.opened < MaxOpens
    /\ db' = DexDB_ctor(db, NoEnv).db
    /\ cache' = DexDB_ctor_cache(db, NoEnv)
    /\ life' = [life EXCEPT !.pSingleton = life.opened + 1,
                            !.opened = @ + 1,
                            !.live = @ \cup {life.opened + 1}]
    /\ Step(t, "count", life.opened + 1, 0, thr[t].held)
    /\ UNCHANGED <<last, bus>>

\* instance(): the read of `nCounter++`
InstanceRead(t) ==
    /\ thr[t].pc = "count"
    /\ Step(t, "store", thr[t].obj, life.nCounter, thr[t].held)
    /\ UNCHANGED <<db, last, life, bus, cache>>

\* instance(): the write of `nCounter++`
InstanceWrite(t) ==
    /\ thr[t].pc = "store" /\ thr[t].tmp < 2 * MaxHolds
    /\ life' = [life EXCEPT !.nCounter = thr[t].tmp + 1]
    /\ Step(t, "return", thr[t].obj, 0, thr[t].held)
    /\ UNCHANGED <<db, last, bus, cache>>

\* instance(): `return pSingleton;` the caller now holds that handle
InstanceReturn(t) ==
    /\ thr[t].pc = "return"
    /\ Step(t, "idle", 0, 0, Append(thr[t].held, life.pSingleton))
    /\ UNCHANGED <<db, last, life, bus, cache>>

\* freeInstance() by a thread that gives up a handle it holds:
\* `if (nCounter > 0)`
FreeTest(t) ==
    /\ thr[t].pc = "idle" /\ thr[t].held # <<>>
    /\ Step(t, IF life.nCounter > 0 THEN "dec" ELSE "idle",
            0, 0, Tail(thr[t].held))
    /\ UNCHANGED <<db, last, life, bus, cache>>

\* freeInstance(): the read of `nCounter--`
FreeRead(t) ==
    /\ thr[t].pc = "dec"
    /\ Step(t, "decstore", 0, life.nCounter, thr[t].held)
    /\ UNCHANGED <<db, last, life, bus, cache>>

\* freeInstance(): the write of `nCounter--`
FreeWrite(t) ==
    /\ thr[t].pc = "decstore" /\ thr[t].tmp > -MaxHolds
    /\ life' = [life EXCEPT !.nCounter = thr[t].tmp - 1]
    /\ Step(t, "zero", 0, 0, thr[t].held)
    /\ UNCHANGED <<db, last, bus, cache>>

\* freeInstance(): `if (nCounter == 0)`
FreeZero(t) ==
    /\ thr[t].pc = "zero"
    /\ Step(t, IF life.nCounter = 0 THEN "delete" ELSE "idle", 0, 0, thr[t].held)
    /\ UNCHANGED <<db, last, life, bus, cache>>

\* freeInstance(): `delete pSingleton; pSingleton = nullptr;`
FreeDelete(t) ==
    /\ thr[t].pc = "delete"
    /\ life' = [life EXCEPT !.live = @ \ {life.pSingleton}, !.pSingleton = 0]
    /\ Step(t, "idle", 0, 0, thr[t].held)
    /\ UNCHANGED <<db, last, bus, cache>>

InitRace ==
    /\ life = ClosedLife
    /\ thr = IdleThreads
    /\ bus = EmptyBus
    /\ cache = EmptyCache
    /\ db = EmptyDb
    /\ last = NotOpened

NextRace ==
    \E t \in Threads :
        \/ InstanceTest(t)
        \/ InstanceConstruct(t)
        \/ InstanceRead(t)
        \/ InstanceWrite(t)
        \/ InstanceReturn(t)
        \/ FreeTest(t)
        \/ FreeRead(t)
        \/ FreeWrite(t)
        \/ FreeZero(t)
        \/ FreeDelete(t)

SpecRace == InitRace /\ [][NextRace]_vars

----------------------------------------------------------------------------
(* Observers: addCallBack and removeCallBack around the operations         *)

\* `this->callBack[callBack]++` on the std::map: a missing key is inserted
\* with 0 first
addCallBack_exec(callBack, o) ==
    IF o \in DOMAIN callBack
    THEN [callBack EXCEPT ![o] = @ + 1]
    ELSE [x \in (DOMAIN callBack) \cup {o} |-> IF x = o THEN 1 ELSE callBack[x]]

\* a removal that erases the entry whatever its count
removeCallBackAll_exec(callBack, o) ==
    [x \in (DOMAIN callBack) \ {o} |-> callBack[x]]

\* DexDB::removeCallBack: an entry found with a positive count is
\* decremented and erased when it reaches 0; an unknown pointer is ignored
removeCallBack_exec(callBack, o) ==
    IF o \in DOMAIN callBack /\ callBack[o] > 0
    THEN IF callBack[o] - 1 = 0
         THEN [x \in (DOMAIN callBack) \ {o} |-> callBack[x]]
         ELSE [callBack EXCEPT ![o] = @ - 1]
    ELSE callBack

\* the record of a call that runs no statement
BusDone(op, o) ==
    [op |-> op, table |-> NoArg, key |-> o, status |-> 0, changes |-> 0,
     thrown |-> FALSE, tag |-> NoArg, kind |-> NoArg]

\* the pointers handed to addCallBack and removeCallBack
Pointers == Observers \cup {NullObserver}

\* DexDB::addCallBack
addCallBack(o) ==
    /\ Len(bus.calls) < MaxCalls
    /\ bus' = [callBack |-> addCallBack_exec(bus.callBack, o),
               delivered |-> {}, times |-> [x \in {} |-> 0],
               calls |-> Append(bus.calls, <<"add", o>>)]
    /\ last' = BusDone("addCallBack", o)
    /\ UNCHANGED <<db, life, thr, cache>>

\* DexDB::removeCallBack
removeCallBack(o) ==
    /\ Len(bus.calls) < MaxCalls
    /\ bus' = [callBack |-> removeCallBack_exec(bus.callBack, o),
               delivered |-> {}, times |-> [x \in {} |-> 0],
               calls |-> Append(bus.calls, <<"remove", o>>)]
    /\ last' = BusDone("removeCallBack", o)
    /\ UNCHANGED <<db, life, thr, cache>>

\* the offers of the runs with observers
BusOffers == {Sample1(1)}

\* registrations and removals around adds (the second add of an offer
\* fails) and deletes
NextBus ==
    \/ \E o \in Pointers : addCallBack(o)
    \/ \E o \in Pointers : removeCallBack(o)
    \/ \E offer \in BusOffers : addOffer("offersSell", offer)
    \/ \E offer \in BusOffers : deleteOfferByHash("offersSell", offer.hash)

SpecBus == Init /\ [][NextBus]_vars

----------------------------------------------------------------------------
(* Reference data: countries, currencies and payment methods, each a table *)
(* and a list kept in memory                                               *)

\* the orders in which `ORDER BY sortOrder` may return rows: any order of
\* the rows with sortOrder not decreasing
OrderBySortOrder(rows) ==
    {s \in [1 .. Cardinality(rows) -> rows] :
        /\ \A i, j \in 1 .. Cardinality(rows) : i # j => s[i] # s[j]
        /\ \A i, j \in 1 .. Cardinality(rows) :
              i < j => s[i].sortOrder <= s[j].sortOrder}

\* the columns getCountriesInfo and getCountryInfo read into a CountryInfo
CountryInfoOf(r) == [iso |-> r.iso, name |-> r.name, enabled |-> r.enabled]

\* the columns getCurrenciesInfo and getCurrencyInfo read into a CurrencyInfo
CurrencyInfoOf(r) ==
    [iso |-> r.iso, name |-> r.name, symbol |-> r.symbol, enabled |-> r.enabled]

\* the columns getPaymentMethodsInfo reads into a PaymentMethodInfo
PaymentMethodInfoOf(r) ==
    [type |-> r.type, name |-> r.name, description |-> r.description]

\* a default-constructed CountryInfo / CurrencyInfo / PaymentMethodInfo
NoInfo == [iso |-> "", name |-> "", enabled |-> FALSE]

\* std::find_if over a cached list: the first entry with the iso, if any
FindIso(list, iso) ==
    IF \E i \in 1 .. Len(list) : list[i].iso = iso
    THEN list[CHOOSE i \in 1 .. Len(list) :
                 /\ list[i].iso = iso
                 /\ \A k \in 1 .. i - 1 : list[k].iso # iso]
    ELSE NoInfo

\* an UPDATE that sets the sort order alone
editSortOrderOnly_exec(rows, iso, enabled, sortOrder) ==
    {IF r.iso = iso THEN [r EXCEPT !.sortOrder = sortOrder] ELSE r : r \in rows}

\* DexDB::editCountry and DexDB::editCurrency:
\* UPDATE ... SET enabled = :enabled, sortOrder = :sortOrder WHERE iso = :iso
editCountry_exec(rows, iso, enabled, sortOrder) ==
    {IF r.iso = iso THEN [r EXCEPT !.enabled = enabled, !.sortOrder = sortOrder]
     ELSE r : r \in rows}

\* the loop of DexDB::editCountries and DexDB::editCurrencies from the item
\* at position i on, sort being i - 1; every UPDATE returns 0
RECURSIVE editEach(_, _, _)
editEach(rows, list, i) ==
    IF i > Len(list) THEN rows
    ELSE editEach(editCountry_exec(rows, list[i].iso, list[i].enabled, i - 1),
                  list, i + 1)

\* the record of a completed call on the reference data: as Done, with
\* whether a statement was run on the database and the value returned
RefDone(op, t, key, fin, status, queried, result) ==
    [op |-> op, table |-> t, key |-> key, status |-> status, changes |-> 0,
     thrown |-> fin.thrown, tag |-> fin.tag, kind |-> fin.kind,
     queried |-> queried, result |-> result]

\* a call that returns without reaching finishTableOperation
NotFinished == [thrown |-> FALSE, tag |-> NoArg, kind |-> NoArg, s |-> NoArg]

\* the end of a call on the reference data: the observers are called when
\* finishTableOperation was reached
RefNotify(fin) ==
    /\ bus' = [bus EXCEPT !.delivered =
                  IF fin = NotFinished THEN {} ELSE Delivered(bus.callBack, fin),
                          !.times =
                  IF fin = NotFinished THEN [o \in {} |-> 0]
                  ELSE DeliveredTimes(bus.callBack, fin)]
    /\ UNCHANGED <<life, thr>>

\* DexDB::addCountry
addCountry(c, sortOrder) ==
    /\ Len(cache.countries) < MaxList
    /\ LET res == addCountry_exec(db.tab["countries"], db.tab["currencies"],
                                  c, sortOrder)
           fin == finishTableOperation("Countries", "Add", res.status)
       IN  /\ cache' = [cache EXCEPT !.countries =
                            Append(@, [iso |-> c.iso, name |-> c.name,
                                       enabled |-> c.enabled])]
           /\ db' = [db EXCEPT !.tab["countries"] = res.rows]
           /\ last' = RefDone("addCountry", "countries", c.iso, fin,
                              res.status, TRUE, NoArg)
           /\ RefNotify(fin)

\* DexDB::editCountries
editCountries(list) ==
    LET fin == finishTableOperation("Countries", "Edit", 0)
    IN  /\ cache' = [cache EXCEPT !.countries =
                        IF Len(@) = Len(list) THEN list ELSE @]
        /\ db' = [db EXCEPT !.tab["countries"] = editEach(@, list, 1)]
        /\ last' = RefDone("editCountries", "countries", list, fin, 0, TRUE, NoArg)
        /\ RefNotify(fin)

\* DexDB::deleteCountry
deleteCountry(iso) ==
    LET fin == finishTableOperation("Countries", "Delete", 0)
    IN  /\ cache' = [cache EXCEPT !.countries =
                        SelectSeq(@, LAMBDA c : c.iso # iso)]
        /\ db' = [db EXCEPT !.tab["countries"] = {r \in @ : r.iso # iso}]
        /\ last' = RefDone("deleteCountry", "countries", iso, fin, 0, TRUE, NoArg)
        /\ RefNotify(fin)

\* DexDB::getCountriesInfo
getCountriesInfo ==
    IF cache.isGetCountriesDataFromDB
    THEN \E s \in OrderBySortOrder(db.tab["countries"]) :
           LET fin == finishTableOperation("Countries", "Read", 0)
               loaded == cache.countries \o [i \in 1 .. Len(s) |-> CountryInfoOf(s[i])]
           IN  /\ cache' = [cache EXCEPT !.countries = loaded,
                                         !.isGetCountriesDataFromDB = FALSE]
               /\ last' = RefDone("getCountriesInfo", "countries", NoArg, fin,
                                  0, TRUE, loaded)
               /\ RefNotify(fin)
               /\ UNCHANGED db
    ELSE /\ last' = RefDone("getCountriesInfo", "countries", NoArg, NotFinished,
                            0, FALSE, cache.countries)
         /\ RefNotify(NotFinished)
         /\ UNCHANGED <<db, cache>>

\* DexDB::getCountryInfo, for an iso that has a row when the table is asked
getCountryInfo(iso) ==
    IF cache.isGetCountriesDataFromDB
    THEN \E r \in db.tab["countries"] :
           LET fin == finishTableOperation("Countries", "Read", 0)
           IN  /\ r.iso = iso
               /\ last' = RefDone("getCountryInfo", "countries", iso, fin,
                                  0, TRUE, CountryInfoOf(r))
               /\ RefNotify(fin)
               /\ UNCHANGED <<db, cache>>
    ELSE /\ last' = RefDone("getCountryInfo", "countries", iso, NotFinished,
                            0, FALSE, FindIso(cache.countries, iso))
         /\ RefNotify(NotFinished)
         /\ UNCHANGED <<db, cache>>

\* DexDB::addCurrency; it reports the Countries table.  The row ids in use
\* are capped
addCurrency(c) ==
    /\ Len(cache.currencies) < MaxList
    /\ \A r \in db.tab["currencies"] : r.id <= MaxList
    /\ LET res == addCurrency_exec(db.tab["currencies"], c)
           fin == finishTableOperation("Countries", "Add", res.status)
       IN  /\ cache' = [cache EXCEPT !.currencies = Append(@, CurrencyInfoOf(c))]
           /\ db' = [db EXCEPT !.tab["currencies"] = res.rows]
           /\ last' = RefDone("addCurrency", "currencies", c.iso, fin,
                              res.status, TRUE, NoArg)
           /\ RefNotify(fin)

\* DexDB::editCurrencies
editCurrencies(list) ==
    LET fin == finishTableOperation("Currencies", "Edit", 0)
    IN  /\ cache' = [cache EXCEPT !.currencies =
                        IF Len(@) = Len(list) THEN list ELSE @]
        /\ db' = [db EXCEPT !.tab["currencies"] = editEach(@, list, 1)]
        /\ last' = RefDone("editCurrencies", "currencies", list, fin, 0, TRUE, NoArg)
        /\ RefNotify(fin)

\* DexDB::deleteCurrency
deleteCurrency(iso) ==
    LET fin == finishTableOperation("Currencies", "Delete", 0)
    IN  /\ cache' = [cache EXCEPT !.currencies =
                        SelectSeq(@, LAMBDA c : c.iso # iso)]
        /\ db' = [db EXCEPT !.tab["currencies"] = {r \in @ : r.iso # iso}]
        /\ last' = RefDone("deleteCurrency", "currencies", iso, fin, 0, TRUE, NoArg)
        /\ RefNotify(fin)

\* DexDB::getCurrenciesInfo
getCurrenciesInfo ==
    IF cache.isGetCurrenciesDataFromDB
    THEN \E s \in OrderBySortOrder(db.tab["currencies"]) :
           LET fin == finishTableOperation("Currencies", "Read", 0)
               loaded == cache.currencies \o [i \in 1 .. Len(s) |-> CurrencyInfoOf(s[i])]
           IN  /\ cache' = [cache EXCEPT !.currencies = loaded,
                                         !.isGetCurrenciesDataFromDB = FALSE]
               /\ last' = RefDone("getCurrenciesInfo", "currencies", NoArg, fin,
                                  0, TRUE, loaded)
               /\ RefNotify(fin)
               /\ UNCHANGED db
    ELSE /\ last' = RefDone("getCurrenciesInfo", "currencies", NoArg, NotFinished,
                            0, FALSE, cache.currencies)
         /\ RefNotify(NotFinished)
         /\ UNCHANGED <<db, cache>>

\* DexDB::getCurrencyInfo, for an iso that has a row when the table is asked
getCurrencyInfo(iso) ==
    IF cache.isGetCurrenciesDataFromDB
    THEN \E r \in db.tab["currencies"] :
           LET fin == finishTableOperation("Currencies", "Read", 0)
           IN  /\ r.iso = iso
               /\ last' = RefDone("getCurrencyInfo", "currencies", iso, fin,
                                  0, TRUE, CurrencyInfoOf(r))
               /\ RefNotify(fin)
               /\ UNCHANGED <<db, cache>>
    ELSE /\ last' = RefDone("getCurrencyInfo", "currencies", iso, NotFinished,
                            0, FALSE, FindIso(cache.currencies, iso))
         /\ RefNotify(NotFinished)
         /\ UNCHANGED <<db, cache>>

\* DexDB::addPaymentMethod
addPaymentMethod(m) ==
    /\ Len(cache.payments) < MaxList
    /\ LET res == addPaymentMethod_exec(db.tab["paymentMethods"], m)
           fin == finishTableOperation("PaymentMethods", "Add", res.status)
       IN  /\ cache' = [cache EXCEPT !.payments = Append(@, PaymentMethodInfoOf(m))]
           /\ db' = [db EXCEPT !.tab["paymentMethods"] = res.rows]
           /\ last' = RefDone("addPaymentMethod", "paymentMethods", m.type, fin,
                              res.status, TRUE, NoArg)
           /\ RefNotify(fin)

\* DexDB::deletePaymentMethod
deletePaymentMethod(type) ==
    LET fin == finishTableOperation("PaymentMethods", "Delete", 0)
    IN  /\ cache' = [cache EXCEPT !.payments =
                        SelectSeq(@, LAMBDA c : c.type # type)]
        /\ db' = [db EXCEPT !.tab["paymentMethods"] = {r \in @ : r.type # type}]
        /\ last' = RefDone("deletePaymentMethod", "paymentMethods", type, fin,
                           0, TRUE, NoArg)
        /\ RefNotify(fin)

\* DexDB::getPaymentMethodsInfo
getPaymentMethodsInfo ==
    IF cache.isGetPaymentsDataFromDB
    THEN \E s \in OrderBySortOrder(db.tab["paymentMethods"]) :
           LET fin == finishTableOperation("PaymentMethods", "Read", 0)
               loaded == cache.payments \o [i \in 1 .. Len(s) |-> PaymentMethodInfoOf(s[i])]
           IN  /\ cache' = [cache EXCEPT !.payments = loaded,
                                         !.isGetPaymentsDataFromDB = FALSE]
               /\ last' = RefDone("getPaymentMethodsInfo", "paymentMethods", NoArg,
                                  fin, 0, TRUE, loaded)
               /\ RefNotify(fin)
               /\ UNCHANGED db
    ELSE /\ last' = RefDone("getPaymentMethodsInfo", "paymentMethods", NoArg,
                            NotFinished, 0, FALSE, cache.payments)
         /\ RefNotify(NotFinished)
         /\ UNCHANGED <<db, cache>>

\* DexDB::getPaymentMethodInfo, for a type that has a row: the table is
\* asked whatever the flag and the list
getPaymentMethodInfo(type) ==
    \E r \in db.tab["paymentMethods"] :
       LET fin == finishTableOperation("PaymentMethods", "Read", 0)
       IN  /\ r.type = type
           /\ last' = RefDone("getPaymentMethodInfo", "paymentMethods", type, fin,
                              0, TRUE, PaymentMethodInfoOf(r))
           /\ RefNotify(fin)
           /\ UNCHANGED <<db, cache>>

\* the arguments of the runs on the reference data: a country of a currency
\* that is not in the table, a country that is seeded; a new currency and a
\* seeded one; a new payment method and a seeded one
RefCountries ==
    {[iso |-> "DE", name |-> "Germany", currency |-> "EUR", enabled |-> TRUE],
     [iso |-> "RU", name |-> "Russia", currency |-> "RUB", enabled |-> TRUE]}

RefCurrencies ==
    {[iso |-> "EUR", name |-> "Euro", symbol |-> "E", enabled |-> TRUE, sortOrder |-> 2],
     [iso |-> "RUB", name |-> "Ruble", symbol |-> "R", enabled |-> TRUE, sortOrder |-> 0]}

RefPaymentMethods ==
    {[type |-> 2, name |-> "Bank", description |-> "bank", sortOrder |-> 2],
     [type |-> 1, name |-> "Cash", description |-> "cash", sortOrder |-> 0]}

SortOrders == {0, 2}

CountryIsos == {"RU", "DE"}

CurrencyIsos == {"RUB", "EUR"}

PaymentTypes == {1, 2}

\* the lists handed to editCountries: the seeded countries in the other
\* order with one disabled, and one of them alone
EditCountryLists ==
    {<<[iso |-> "US", name |-> "USA", enabled |-> TRUE],
       [iso |-> "RU", name |-> "Russia", enabled |-> FALSE]>>,
     <<[iso |-> "US", name |-> "USA", enabled |-> FALSE]>>}

EditCurrencyLists ==
    {<<[iso |-> "USD", name |-> "Dollar", symbol |-> "$", enabled |-> TRUE],
       [iso |-> "RUB", name |-> "Ruble", symbol |-> "R", enabled |-> FALSE]>>,
     <<[iso |-> "USD", name |-> "Dollar", symbol |-> "$", enabled |-> FALSE]>>}

\* the object built on an empty file, or on the file an earlier run left
InitRef ==
    /\ life = OpenedLife
    /\ thr = IdleThreads
    /\ bus = EmptyBus
    /\ \E d \in {EmptyDb, FreshDb} :
          /\ db = DexDB_ctor(d, NoEnv).db
          /\ cache = DexDB_ctor_cache(d, NoEnv)
    /\ last = [op |-> "DexDB", table |-> NoArg, key |-> "create", status |-> 0,
               changes |-> 0,
               thrown |-> FALSE, tag |-> NoArg, kind |-> NoArg]

NextCountries ==
    \/ \E c \in RefCountries, sortOrder \in SortOrders : addCountry(c, sortOrder)
    \/ \E list \in EditCountryLists : editCountries(list)
    \/ \E iso \in CountryIsos : deleteCountry(iso)
    \/ getCountriesInfo
    \/ \E iso \in CountryIsos : getCountryInfo(iso)

NextCurrencies ==
    \/ \E c \in RefCurrencies : addCurrency(c)
    \/ \E list \in EditCurrencyLists : editCurrencies(list)
    \/ \E iso \in CurrencyIsos : deleteCurrency(iso)
    \/ getCurrenciesInfo
    \/ \E iso \in CurrencyIsos : getCurrencyInfo(iso)

NextPayments ==
    \/ \E m \in RefPaymentMethods : addPaymentMethod(m)
    \/ \E type \in PaymentTypes : deletePaymentMethod(type)
    \/ getPaymentMethodsInfo
    \/ \E type \in PaymentTypes : getPaymentMethodInfo(type)

\* the countries, with an observer
NextRef ==
    \/ \E o \in {"o1"} : addCallBack(o)
    \/ NextCountries

SpecRef == InitRef /\ [][NextRef]_vars

SpecCurrencies == InitRef /\ [][NextCurrencies]_vars

SpecPayments == InitRef /\ [][NextPayments]_vars

\* bulk edits of the countries and the currencies, between deletes (which
\* change the sizes of the lists) and list reads
NextEdits ==
    \/ \E list \in EditCountryLists : editCountries(list)
    \/ \E list \in EditCurrencyLists : editCurrencies(list)
    \/ \E iso \in CountryIsos : deleteCountry(iso)
    \/ \E iso \in CurrencyIsos : deleteCurrency(iso)
    \/ getCountriesInfo
    \/ getCurrenciesInfo

SpecEdits == InitRef /\ [][NextEdits]_vars

----------------------------------------------------------------------------
(* Lists of offers under a filter                                          *)

\* the WHERE clause getOffers and getMyOffers build from countryIso,
\* currencyIso and payment: each is left out when "" or 0
MatchesOfferFilter(r, f) ==
    /\ (f.countryIso # "" => r.countryIso = f.countryIso)
    /\ (f.currencyIso # "" => r.currencyIso = f.currencyIso)
    /\ (f.payment > 0 => r.paymentMethod = f.payment)

\* the further conditions of getMyOffers: `type >= 0` adds type = <type>,
\* `statusOffer > 0` adds status = <statusOffer>
MatchesMyOfferFilter(r, f) ==
    /\ MatchesOfferFilter(r, f)
    /\ (f.type >= 0 => r.type = f.type)
    /\ (f.statusOffer > 0 => r.status = f.statusOffer)

\* the rows a SELECT returns of the rows matched: all of them, or with
\* LIMIT (and OFFSET) as many as are left after offset, up to limit, the
\* statement having no ORDER BY
Limited(matched, f) ==
    IF f.limit > 0
    THEN LET left == Cardinality(matched) - (IF f.offset > 0 THEN f.offset ELSE 0)
             n == IF left < 0 THEN 0 ELSE IF left < f.limit THEN left ELSE f.limit
         IN  {part \in SUBSET matched : Cardinality(part) = n}
    ELSE {matched}

\* the record of a completed list call: as Done, with the offers returned
ListDone(op, t, f, fin, result) ==
    [op |-> op, table |-> t, key |-> f, status |-> 0, changes |-> 0,
     thrown |-> fin.thrown, tag |-> fin.tag, kind |-> fin.kind,
     result |-> result]

\* DexDB::getOffers(tableName, countryIso, currencyIso, payment, limit, offset)
getOffers(tableName, f) ==
    \E part \in Limited({r \in db.tab[tableName] : MatchesOfferFilter(r, f)}, f) :
       LET fin == finishTableOperation(
                     IF tableName = "offersSell" THEN "OffersSell" ELSE "OffersBuy",
                     "Read", 0)
       IN  /\ last' = ListDone("getOffers", tableName, f, fin,
                               {getOffer_it(r) : r \in part})
           /\ Notify(fin)
           /\ UNCHANGED db

\* DexDB::getMyOffers(countryIso, currencyIso, payment, type, statusOffer,
\* limit, offset)
getMyOffers(f) ==
    \E part \in Limited({r \in db.tab["myOffers"] : MatchesMyOfferFilter(r, f)}, f) :
       LET fin == finishTableOperation("MyOffers", "Read", 0)
       IN  /\ last' = ListDone("getMyOffers", "myOffers", f, fin,
                               {getMyOffer_it(r) : r \in part})
           /\ Notify(fin)
           /\ UNCHANGED db

\* the offers listed: one of each country, currency and payment method; as
\* local offers the first with type 1 and status 1, the second with type 0
\* and status 2 (TypeOffer and StatusOffer by their integer values)
FilterOffers == {Sample1(1), Sample2(2)}

FilterMyOffers == {MyOffer(Sample1(1), 1, 1), MyOffer(Sample2(2), 0, 2)}

\* the filters on the remote tables
OfferFilters ==
    [countryIso : {"", "RU"}, currencyIso : {"", "USD"}, payment : {0, 1},
     limit : {0, 1}, offset : {0, 1}]

\* the filters on the local table; with a type or a status the country and
\* the payment method are left open
MyOfferFilters ==
    [countryIso : {""}, currencyIso : {"", "USD"}, payment : {0},
     type : {-1, 0, 1}, statusOffer : {-1, 0, 2},
     limit : {0, 1}, offset : {0}]

NextFilter ==
    \/ \E offer \in FilterOffers : addOffer("offersSell", offer)
    \/ \E offer \in FilterMyOffers : addMyOffer(offer)
    \/ \E f \in OfferFilters : getOffers("offersSell", f)
    \/ \E f \in MyOfferFilters : getMyOffers(f)

SpecFilter == Init /\ [][NextFilter]_vars

----------------------------------------------------------------------------
(* Counts                                                                  *)

\* SELECT count(*) FROM <table>
countOffers_all(rows) == Cardinality(rows)

\* SELECT count(*) FROM <table> with the WHERE clause of the period
countOffers_period(rows, from, timeMod) ==
    Cardinality(IF from = "Before"
                THEN {r \in rows : r.timeModification < timeMod}
                ELSE IF from = "After"
                THEN {r \in rows : r.timeModification >= timeMod}
                ELSE rows)

\* a count whose WHERE clause leaves type out when it is 0 as well
countOffers_typeAboveZero(rows, f) ==
    Cardinality({r \in rows :
        /\ (f.countryIso # "" => r.countryIso = f.countryIso)
        /\ (f.currencyIso # "" => r.currencyIso = f.currencyIso)
        /\ (f.payment > 0 => r.paymentMethod = f.payment)
        /\ (f.type > 0 => r.type = f.type)
        /\ (f.statusOffer > 0 => r.status = f.statusOffer)})

\* SELECT count(*) FROM <table> with the WHERE clause countOffers builds
\* from countryIso, currencyIso, payment, type and statusOffer
countOffers_filter(rows, f) ==
    Cardinality({r \in rows :
        /\ (f.countryIso # "" => r.countryIso = f.countryIso)
        /\ (f.currencyIso # "" => r.currencyIso = f.currencyIso)
        /\ (f.payment > 0 => r.paymentMethod = f.payment)
        /\ (f.type >= 0 => r.type = f.type)
        /\ (f.statusOffer > 0 => r.status = f.statusOffer)})

\* the end of a count or of another call that returns a value read from
\* the table
ReadDone(op, t, key, result) ==
    LET fin == finishTableOperation(TagOfDelete(t), "Read", 0)
    IN  /\ last' = ListDone(op, t, key, fin, result)
        /\ Notify(fin)
        /\ UNCHANGED db

\* DexDB::countOffersSell(), countOffersBuy(), countMyOffers()
countOffers(tableName) ==
    ReadDone("countOffers", tableName, NoArg, countOffers_all(db.tab[tableName]))

\* DexDB::countOffersSell(from, timeMod), countOffersBuy(from, timeMod)
countOffersPeriod(tableName, from, timeMod) ==
    ReadDone("countOffersPeriod", tableName, [from |-> from, timeMod |-> timeMod],
             countOffers_period(db.tab[tableName], from, timeMod))

\* DexDB::countOffersSell(countryIso, currencyIso, payment) and the same of
\* Buy: type is -1 and statusOffer 0
countOffersFilter(tableName, f) ==
    ReadDone("countOffersFilter", tableName, f,
             countOffers_filter(db.tab[tableName],
                 [countryIso |-> f.countryIso, currencyIso |-> f.currencyIso,
                  payment |-> f.payment, type |-> -1, statusOffer |-> 0]))

\* DexDB::countMyOffers(countryIso, currencyIso, payment, type, statusOffer)
countMyOffers(f) ==
    ReadDone("countMyOffers", "myOffers", f,
             countOffers_filter(db.tab["myOffers"], f))

NextCount ==
    \/ \E offer \in FilterOffers : addOffer("offersSell", offer)
    \/ \E offer \in FilterMyOffers : addMyOffer(offer)
    \/ \E t \in {"offersSell", "myOffers"} : countOffers(t)
    \/ \E from \in OffersPeriod, timeMod \in Times :
          countOffersPeriod("offersSell", from, timeMod)
    \/ \E f \in OfferFilters : f.limit = 0 /\ f.offset = 0
                               /\ countOffersFilter("offersSell", f)
    \/ \E f \in MyOfferFilters : f.limit = 0 /\ countMyOffers(f)

SpecCount == Init /\ [][NextCount]_vars

----------------------------------------------------------------------------
(* Point lookups                                                           *)

\* what reading the columns of a statement that has no row gives: the
\* result of sqlite3_column_* is undefined there, so either a record of
\* unspecified fields comes back or the call does not return
NoRowOutcomes == {NoRow, [hash |-> "terminated"]}

\* the rows WHERE <column> = "<hex>" selects
RowsByKey(rows, column, value) ==
    {r \in rows : r[column] = GetHex(value)}

\* DexDB::getOffer(tableName, idTransaction), getOfferByHash(tableName, hash),
\* getMyOffer(idTransaction), getMyOfferByHash(hash): the first row selected
\* is read, qry.finish() gives 0 whether or not there was a row
getByKey(tableName, column, value) ==
    LET found == RowsByKey(db.tab[tableName], column, value)
    IN  \E result \in IF found = {} THEN NoRowOutcomes
                      ELSE {IF tableName = "myOffers" THEN getMyOffer_it(r)
                            ELSE getOffer_it(r) : r \in found} :
           ReadDone("get", tableName, [column |-> column, value |-> value], result)

\* DexDB::isExistOffer, isExistOfferByHash, isExistMyOffer,
\* isExistMyOfferByHash: SELECT count() ... and `count > 0`
isExistByKey(tableName, column, value) ==
    ReadDone("isExist", tableName, [column |-> column, value |-> value],
             Cardinality(RowsByKey(db.tab[tableName], column, value)) > 0)

NextLookup ==
    \/ \E offer \in FilterOffers : addOffer("offersSell", offer)
    \/ \E offer \in FilterMyOffers : addMyOffer(offer)
    \/ \E t \in {"offersSell", "myOffers"} :
          \/ \E id \in TxIds : getByKey(t, "idTransaction", id)
          \/ \E h \in Hashes : getByKey(t, "hash", h)
    \/ \E t \in {"offersSell", "myOffers"} :
          \/ \E id \in TxIds : isExistByKey(t, "idTransaction", id)
          \/ \E h \in Hashes : isExistByKey(t, "hash", h)

SpecLookup == Init /\ [][NextLookup]_vars

----------------------------------------------------------------------------
(* The migration statement by statement.  The constructor brackets the     *)
(* statements with `sqlite3pp::transaction tx(db)` and `tx.commit()`; the  *)
(* engine keeps what a connection has written inside a transaction from    *)
(* the other connections until the commit.  Thread t1 is the constructor,  *)
(* thread t2 reads through a connection of its own.  thr["t1"] holds the   *)
(* statement reached (pc), the file as t1's connection sees it (obj), the  *)
(* file when the constructor began (tmp) and the tables whose copy the     *)
(* engine rejects (held).                                                  *)

\* the statements of the migration block, in the order of the constructor
MigrationStatements ==
    <<"dropIndexes", "renameTables", "dropTables", "createTables",
      "moveTablesData", "createIndexes", "dropOldTables", "addDefaultData">>

\* the file after one statement of the block
MigrationStatement(name, d, failed) ==
    CASE name = "dropIndexes" -> dropIndexes(d)
      [] name = "renameTables" -> renameTables(d)
      [] name = "dropTables" -> dropTables(d)
      [] name = "createTables" -> createTables(d)
      [] name = "moveTablesData" -> moveTablesData(d, failed)
      [] name = "createIndexes" -> createIndexes(d)
      [] name = "dropOldTables" -> dropOldTables(d)
      [] name = "addDefaultData" -> addDefaultData(d)

\* statements that are committed one by one
autocommit(d, work, committing) == work

\* what the other connections find in the file: d until the transaction
\* commits, then what the transaction wrote
transaction(d, work, committing) == IF committing THEN work ELSE d

\* SQLITE_BUSY
SqliteBusy == 5

\* the position of the constructor after tx.commit()
Committed == Len(MigrationStatements) + 2

\* the next statement of the migration block
migrationStatement ==
    /\ thr["t1"].pc \in 1 .. Len(MigrationStatements)
    /\ LET me == thr["t1"]
           work == MigrationStatement(MigrationStatements[me.pc], me.obj, me.held)
       IN  /\ Step("t1", me.pc + 1, work, me.tmp, me.held)
           /\ db' = transaction(db, work, FALSE)
    /\ UNCHANGED <<last, life, bus, cache>>

\* tx.commit()
commit ==
    /\ thr["t1"].pc = Len(MigrationStatements) + 1
    /\ LET me == thr["t1"]
       IN  /\ Step("t1", Committed, me.obj, me.tmp, me.held)
           /\ db' = transaction(db, me.obj, TRUE)
    /\ UNCHANGED <<last, life, bus, cache>>

\* thread t2 reads the file through its own connection: it is given the
\* file as committed, or SQLITE_BUSY while the transaction is open
concurrentRead ==
    /\ \E status \in {0, SqliteBusy} :
          /\ status = SqliteBusy => thr["t1"].pc # Committed
          /\ last' = [op |-> "read", table |-> NoArg,
                      key |-> IF status = 0 THEN db ELSE NoArg,
                      status |-> status, changes |-> 0, thrown |-> FALSE,
                      tag |-> NoArg, kind |-> NoArg]
    /\ UNCHANGED <<db, life, thr, bus, cache>>

\* the outdated files the constructor migrates
OutdatedStores ==
    {d \in DiskStores \ {EmptyDb} :
        /\ isDexDbOutdated(d)
        /\ d.tab["offersBuy"] = {} /\ d.tab["filterList"] = {}}

InitTx ==
    /\ life = ClosedLife
    /\ bus = EmptyBus
    /\ cache = EmptyCache
    /\ db \in OutdatedStores
    /\ last = NotOpened
    /\ \E failed \in {{}} \cup {{t} : t \in MovedTables} :
          thr = [IdleThreads EXCEPT
                    !["t1"] = [pc |-> 1, obj |-> db, tmp |-> db, held |-> failed]]

NextTx ==
    \/ migrationStatement
    \/ commit
    \/ concurrentRead

SpecTx == InitTx /\ [][NextTx]_vars

----------------------------------------------------------------------------
(* The time of the last modification                                       *)

\* SELECT MIN(timeModification) FROM <table>
minModificationOffers(rows) ==
    IF rows = {} THEN 0
    ELSE ToUInt64(CHOOSE m \in {r.timeModification : r \in rows} :
                    \A r \in rows : m <= r.timeModification)

\* DexDB::lastModificationOffers: SELECT MAX(timeModification) FROM <table>
\* read into a long long and returned as uint64_t; MAX over no row is NULL,
\* which the getter reads as 0
lastModificationOffers_exec(rows) ==
    IF rows = {} THEN 0
    ELSE ToUInt64(CHOOSE m \in {r.timeModification : r \in rows} :
                    \A r \in rows : r.timeModification <= m)

\* DexDB::lastModificationOffersSell, lastModificationOffersBuy: both pass
\* OffersBuy to finishTableOperation
lastModificationOffers(tableName) ==
    LET fin == finishTableOperation("OffersBuy", "Read", 0)
    IN  /\ last' = ListDone("lastModificationOffers", tableName, NoArg, fin,
                            lastModificationOffers_exec(db.tab[tableName]))
        /\ Notify(fin)
        /\ UNCHANGED db

\* offers of every modification and expiration time
ModifiedOffers ==
    {[Sample1(h) EXCEPT !.timeModification = tm, !.timeToExpiration = te] :
        h \in Hashes, tm \in Times, te \in Times}

NextModified ==
    \/ \E t \in RemoteTables, offer \in ModifiedOffers : addOffer(t, offer)
    \/ \E t \in RemoteTables, offer \in ModifiedOffers : editOffer(t, offer)
    \/ \E t \in RemoteTables, id \in TxIds : deleteOffer(t, id)
    \/ \E t \in RemoteTables, h \in Hashes : deleteOfferByHash(t, h)
    \/ \E t \in RemoteTables, now \in Times : deleteOldOffers(t, now)
    \/ \E t \in RemoteTables : lastModificationOffers(t)

SpecModified == Init /\ [][NextModified]_vars

----------------------------------------------------------------------------
(* Reads next to one another                                               *)

\* the orders in which a SELECT without ORDER BY may return the rows S
RowOrders(S) ==
    {q \in [1 .. Cardinality(S) -> S] :
        \A i \in 1 .. Cardinality(S) : \A j \in 1 .. Cardinality(S) :
            i # j => q[i] # q[j]}

\* DexDB::getHashsAndEditingVersionsSell, ...Buy (with and without a
\* period): the pairs pushed to the list in the order the query yields them
getHashsAndEditingVersionsList(tableName, from, timeMod) ==
    \E list \in RowOrders(getHashsAndEditingVersions(db.tab[tableName], from, timeMod)) :
        ReadDone("getHashsAndEditingVersions", tableName,
                 [from |-> from, timeMod |-> timeMod], list)

NextReads ==
    \/ \E t \in RemoteTables, offer \in FilterOffers : addOffer(t, offer)
    \/ \E h \in Hashes : deleteOfferByHash("offersSell", h)
    \/ \E t \in RemoteTables, from \in OffersPeriod, timeMod \in Times :
          getHashsAndEditingVersionsList(t, from, timeMod)
    \/ countOffers("offersSell")
    \/ \E h \in Hashes : getByKey("offersSell", "hash", h)
    \/ \E h \in Hashes : isExistByKey("offersSell", "hash", h)
    \/ \E f \in OfferFilters : f.limit = 0 /\ f.offset = 0
                               /\ getOffers("offersSell", f)
    \/ lastModificationOffers("offersSell")

SpecReads == Init /\ [][NextReads]_vars

----------------------------------------------------------------------------
(* Observers across handles.  callBack is a static member: it is there     *)
(* before the first object and after the last; addCallBack and             *)
(* removeCallBack are called on an object.                                 *)

InitHandles ==
    /\ life = ClosedLife
    /\ thr = IdleThreads
    /\ bus = EmptyBus
    /\ cache = EmptyCache
    /\ db = EmptyDb
    /\ last = NotOpened

NextHandles ==
    \/ instance(NoEnv)
    \/ freeInstance
    \/ life.pSingleton # 0 /\ \E o \in Observers : addCallBack(o)
    \/ life.pSingleton # 0 /\ \E o \in Observers : removeCallBack(o)
    \/ life.pSingleton # 0 /\ \E offer \in BusOffers : addOffer("offersSell", offer)
    \/ life.pSingleton # 0
         /\ \E offer \in BusOffers : deleteOfferByHash("offersSell", offer.hash)

SpecHandles == InitHandles /\ [][NextHandles]_vars

----------------------------------------------------------------------------
(* Properties of add, edit and point lookup                                *)

HasHash(rows, hash) == \E r \in rows : r.hash = GetHex(hash)

\* C1: in each offer table, adding a record whose hash is not stored and
\* then reading it by hash gives back a record equal to the one added, in
\* every field (type and status included for myOffers)
C1_AddThenGetByHash ==
    [][/\ last'.op = "addOffer" =>
            \A offer \in CrudOffers :
                /\ offer.hash = last'.key
                /\ addOffer(last'.table, offer)
                /\ ~HasHash(db.tab[last'.table], offer.hash)
                => getOfferByHash(db'.tab[last'.table], offer.hash) = offer
       /\ last'.op = "addMyOffer" =>
            \A offer \in CrudMyOffers :
                /\ offer.hash = last'.key
                /\ addMyOffer(offer)
                /\ ~HasHash(db.tab["myOffers"], offer.hash)
                => getMyOfferByHash(db'.tab["myOffers"], offer.hash) = offer]_vars

\* a local offer with magnitudes in the upper half of the unsigned ranges
\* has just been added and reads back equal, next to a remote offer
C1_Witness ==
    /\ last.op = "addMyOffer" /\ ~last.thrown
    /\ getMyOfferByHash(db.tab["myOffers"], last.key)
          = MyOffer(Sample2(last.key), "Buy", "Draft")
    /\ \E t \in RemoteTables : db.tab[t] # {}

\* C2: in each offer table, an add whose hash is already stored raises
\* DexDBException with SQLITE_CONSTRAINT and leaves every table as it was
C2_DuplicateAddFails ==
    [][last'.op \in {"addOffer", "addMyOffer"}
          /\ HasHash(db.tab[last'.table], last'.key)
            => last'.thrown /\ last'.status = 19 /\ db' = db]_vars

\* an add has just been refused for a hash the table holds, while another
\* table holds rows too
C2_Witness ==
    /\ last.op \in {"addOffer", "addMyOffer"}
    /\ last.thrown /\ last.status = 19
    /\ HasHash(db.tab[last.table], last.key)
    /\ \E t \in OfferTables \ {last.table} : db.tab[t] # {}

\* C3: in each offer table, an edit whose hash is not stored raises an error
\* to the caller and leaves the store as it was
C3_EditAbsentFails ==
    [][last'.op \in {"editOffer", "editMyOffer"}
          /\ ~HasHash(db.tab[last'.table], last'.key)
            => last'.thrown /\ db' = db]_vars

----------------------------------------------------------------------------
(* Properties of the manifest                                              *)

\* the values of timeMod a caller passes: the stored times and one second
\* before and after them
TimeMods == {t - 1 : t \in Times} \cup Times \cup {t + 1 : t \in Times}

\* the records of a remote table as getOfferByHash returns them
StoredOffers(rows) ==
    {getOfferByHash(rows, h) : h \in {SetHex(r.hash) : r \in rows}}

\* C4: in offersSell and offersBuy, when a record stored with editingVersion
\* v is edited by its hash with editingVersion v + 1, the manifest for All
\* holds (hash, v + 1) and does not hold (hash, v)
C4_EditAdvancesManifest ==
    [][last'.op = "editOffer" =>
        \A offer \in ManifestOffers : \A v \in Versions :
            /\ offer.hash = last'.key
            /\ editOffer(last'.table, offer)
            /\ offer.editingVersion = v + 1
            /\ <<offer.hash, v>> \in
                  getHashsAndEditingVersions(db.tab[last'.table], "All", 0)
            => LET m == getHashsAndEditingVersions(db'.tab[last'.table], "All", 0)
               IN  <<offer.hash, v + 1>> \in m /\ <<offer.hash, v>> \notin m]_vars

\* an edit has just acted on a stored record, whose pair in the manifest now
\* carries editingVersion 1 and no longer 0
C4_Witness ==
    /\ last.op = "editOffer" /\ ~last.thrown
    /\ LET m == getHashsAndEditingVersions(db.tab[last.table], "All", 0)
       IN  <<last.key, 1>> \in m /\ <<last.key, 0>> \notin m

\* C5: the manifest of offersSell or offersBuy is exactly the set of
\* (hash, editingVersion) pairs of the stored records whose timeModification
\* is in the window: any for All, < t for Before, >= t for After
C5_ManifestIsWindow ==
    \A t \in RemoteTables : \A timeMod \in TimeMods :
        LET stored == StoredOffers(db.tab[t])
            Pairs(S) == {<<o.hash, o.editingVersion>> : o \in S}
        IN  /\ getHashsAndEditingVersions(db.tab[t], "All", timeMod)
                = Pairs(stored)
            /\ getHashsAndEditingVersions(db.tab[t], "Before", timeMod)
                = Pairs({o \in stored : o.timeModification < timeMod})
            /\ getHashsAndEditingVersions(db.tab[t], "After", timeMod)
                = Pairs({o \in stored : o.timeModification >= timeMod})

\* a table holds one record modified at time 0 and one at time 1: After(1)
\* yields one pair of the two, at the boundary
C5_Witness ==
    \E t \in RemoteTables :
        /\ \E r1 \in db.tab[t], r2 \in db.tab[t] :
              r1.timeModification = 0 /\ r2.timeModification = 1
        /\ Cardinality(getHashsAndEditingVersions(db.tab[t], "After", 1)) = 1
        /\ Cardinality(getHashsAndEditingVersions(db.tab[t], "All", 1)) = 2

\* C6: for every store state and every time t, the manifests for Before(t)
\* and After(t) are disjoint and their union is the manifest for All
C6_BeforeAfterPartition ==
    \A t \in RemoteTables : \A timeMod \in TimeMods :
        LET before == getHashsAndEditingVersions(db.tab[t], "Before", timeMod)
            after == getHashsAndEditingVersions(db.tab[t], "After", timeMod)
        IN  /\ before \cap after = {}
            /\ before \cup after
                = getHashsAndEditingVersions(db.tab[t], "All", timeMod)

\* both parts are non-empty for a time between two stored records
C6_Witness ==
    \E t \in RemoteTables : \E timeMod \in TimeMods :
        /\ getHashsAndEditingVersions(db.tab[t], "Before", timeMod) # {}
        /\ getHashsAndEditingVersions(db.tab[t], "After", timeMod) # {}

----------------------------------------------------------------------------
(* Properties of the expiration sweeps                                     *)

\* the records of myOffers as getMyOfferByHash returns them
StoredMyOffers(rows) ==
    {getMyOfferByHash(rows, h) : h \in {SetHex(r.hash) : r \in rows}}

\* every table but t holds what it held
OthersUntouched(t) ==
    /\ TablesOf(db') = TablesOf(db)
    /\ \A u \in TablesOf(db) \ {t} : db'.tab[u] = db.tab[u]

\* C7: deleteOldOffersSell and deleteOldOffersBuy at time now remove exactly
\* the records with timeToExpiration <= now; every record with
\* timeToExpiration > now stays with all fields unchanged and the other
\* tables are untouched
C7_RemoteSweepExact ==
    [][last'.op = "deleteOldOffers" /\ last'.table \in RemoteTables =>
        /\ StoredOffers(db'.tab[last'.table])
             = {o \in StoredOffers(db.tab[last'.table]) :
                    o.timeToExpiration > last'.key}
        /\ OthersUntouched(last'.table)]_vars

\* a sweep at time 0 has just removed one record of a remote table and left
\* the one that expires at time 1
C7_Witness ==
    /\ last.op = "deleteOldOffers" /\ last.table \in RemoteTables
    /\ last.key = 0 /\ last.changes = 1
    /\ \E o \in StoredOffers(db.tab[last.table]) : o.timeToExpiration = 1

\* C8: setStatusExpiredForMyOffers at time now sets status to Expired on
\* exactly the local records with timeToExpiration < now, changes no other
\* field of any record and neither adds nor removes a row
C8_LocalSweepFlipsStatus ==
    [][last'.op = "setStatusExpiredForMyOffers" =>
        /\ StoredMyOffers(db'.tab["myOffers"])
             = {IF o.timeToExpiration < last'.key
                THEN [o EXCEPT !.status = "Expired"] ELSE o :
                    o \in StoredMyOffers(db.tab["myOffers"])}
        /\ Cardinality(db'.tab["myOffers"]) = Cardinality(db.tab["myOffers"])
        /\ OthersUntouched("myOffers")]_vars

\* a sweep at time 1 has just marked the record that expired at time 0 and
\* left Active the one that expires at time 1
C8_Witness ==
    /\ last.op = "setStatusExpiredForMyOffers"
    /\ last.key = 1 /\ last.changes = 1
    /\ \E o \in StoredMyOffers(db.tab["myOffers"]) :
          o.timeToExpiration = 0 /\ o.status = "Expired"
    /\ \E o \in StoredMyOffers(db.tab["myOffers"]) :
          o.timeToExpiration = 1 /\ o.status = "Active"

\* C9: a row leaves myOffers only through a delete by transaction id or by
\* hash; no operation driven by expiration removes one
C9_LocalRowsOnlyDeletedExplicitly ==
    [][(\E r \in db.tab["myOffers"] : ~HasHash(db'.tab["myOffers"], SetHex(r.hash)))
          => last'.op \in {"deleteOffer", "deleteOfferByHash"}]_vars

----------------------------------------------------------------------------
(* Properties of opening a database file                                   *)

\* C10: when the file holds a version other than uiDexDBversionInCode and
\* every statement of the migration succeeds, each row of countries,
\* currencies and paymentMethods and, by hash, each row of myOffers,
\* offersSell and offersBuy is in the table of the same name afterwards, no
\* *_old table exists and dbversion holds uiDexDBversionInCode
C10_MigrationKeepsRows ==
    [][last'.op = "DexDB" /\ last'.key = "migrate"
          /\ last'.status = 0 /\ ~last'.thrown =>
        /\ \A t \in MovedTables \ OfferTables : db.tab[t] \subseteq db'.tab[t]
        /\ \A t \in OfferTables : \A r \in db.tab[t] :
              HasHash(db'.tab[t], SetHex(r.hash))
        /\ \A t \in MovedTables : OldName(t) \notin TablesOf(db')
        /\ db'.tab["dbversion"] = {[version |-> uiDexDBversionInCode]}]_vars

\* a file of the previous version has just been migrated without an error:
\* its two sell offers and its own list of countries are in the new tables
C10_Witness ==
    /\ last.op = "DexDB" /\ last.key = "migrate"
    /\ last.status = 0 /\ ~last.thrown
    /\ Cardinality(db.tab["offersSell"]) = 2
    /\ db.tab["myOffers"] # {}
    /\ db.tab["countries"] # FreshDb.tab["countries"]
    /\ db.tab["dbversion"] = {[version |-> uiDexDBversionInCode]}
    /\ TablesOf(db) = AllTables

\* C11: the migration is all-or-nothing: when a statement of it is an
\* error the constructor throws and the file holds exactly the tables,
\* rows and indexes it held before
C11_MigrationAllOrNothing ==
    [][last'.op = "DexDB" /\ last'.key = "migrate" /\ last'.status # 0
          => last'.thrown /\ db' = db]_vars

----------------------------------------------------------------------------
(* Properties of the singleton                                             *)

\* C12: in a sequential series of instance() and freeInstance() calls the
\* first acquire constructs the object, each later acquire only increments
\* nCounter and returns the same handle, each release of a held handle
\* decrements nCounter, and the object is deleted exactly when nCounter
\* returns to zero
C12_SequentialLifecycle ==
    [][/\ last'.op = "instance" /\ ~last'.thrown =>
            /\ life'.nCounter = life.nCounter + 1
            /\ last'.key = life'.pSingleton /\ life'.pSingleton \in life'.live
            /\ life.pSingleton = 0 =>
                  /\ life'.opened = life.opened + 1
                  /\ life'.pSingleton \notin life.live
            /\ life.pSingleton # 0 =>
                  /\ life'.pSingleton = life.pSingleton
                  /\ life'.opened = life.opened /\ life'.live = life.live
                  /\ db' = db
       /\ last'.op = "freeInstance" /\ life.nCounter > 0 =>
            /\ life'.nCounter = life.nCounter - 1
            /\ life'.opened = life.opened
            /\ life'.nCounter > 0 =>
                  life'.pSingleton = life.pSingleton /\ life'.live = life.live
            /\ life'.nCounter = 0 =>
                  life'.pSingleton = 0 /\ life'.live = {}
       /\ (life'.pSingleton # 0) = (life'.nCounter > 0)
       /\ Cardinality(life'.live) <= 1]_vars

\* the second object of the run is held twice: the store was opened, held,
\* released to zero, opened again and acquired once more
C12_Witness ==
    /\ last.op = "instance" /\ ~last.thrown
    /\ life.opened = 2 /\ life.nCounter = 2
    /\ life.pSingleton = 2 /\ life.live = {2}

\* C13: under every interleaving of instance() and freeInstance() by the
\* threads, at most one object is allocated at a time, nCounter is the
\* number of handles held whenever no call is in progress, and every handle
\* a thread holds is that of an object not yet deleted
C13_AcquireReleaseAtomic ==
    /\ Cardinality(life.live) <= 1
    /\ (\A t \in Threads : thr[t].pc = "idle") =>
          life.nCounter = Len(thr["t1"].held) + Len(thr["t2"].held)
    /\ \A t \in Threads : \A i \in 1 .. Len(thr[t].held) :
          thr[t].held[i] \in life.live

\* the calls that run a statement and end in finishTableOperation
IsStoreOp(op) == op \notin {"DexDB", "addCallBack", "removeCallBack"}

\* the observers an operation called
Called(delivered) == {e.observer : e \in delivered}

\* C14: an operation whose statement ends with a non-zero status raises an
\* error to its caller and every registered observer receives an Error
\* event for that table and operation
C14_FailureRaisesAndBroadcasts ==
    [][IsStoreOp(last'.op) /\ last'.status # 0 =>
         /\ last'.thrown
         /\ \A o \in (DOMAIN bus.callBack) \ {NullObserver} :
               [observer |-> o, table |-> last'.tag, operation |-> last'.kind,
                status |-> "Error"] \in bus'.delivered]_vars

\* how often observer o occurs in calls with the given kind
RECURSIVE CountCalls(_, _, _)
CountCalls(calls, kind, o) ==
    IF calls = <<>> THEN 0
    ELSE CountCalls(Tail(calls), kind, o)
         + (IF Head(calls) = <<kind, o>> THEN 1 ELSE 0)

\* the registrations of o still outstanding after calls, a removal with
\* none outstanding being ignored
RECURSIVE Outstanding(_, _, _)
Outstanding(calls, o, n) ==
    IF calls = <<>> THEN n
    ELSE Outstanding(Tail(calls), o,
            IF Head(calls) = <<"add", o>> THEN n + 1
            ELSE IF Head(calls) = <<"remove", o>> /\ n > 0 THEN n - 1
            ELSE n)

\* C16 as stated: an observer is notified of an operation exactly when it
\* was added more times than it was removed
C16_NotifiedIffAddedMoreThanRemoved ==
    [][IsStoreOp(last'.op) /\ ~last'.thrown =>
         \A o \in Observers :
            (o \in Called(bus'.delivered)) <=>
            (CountCalls(bus.calls, "add", o) > CountCalls(bus.calls, "remove", o))]_vars

\* C16, amended: registration is reference counted, a removal of an
\* observer that is not registered being ignored: an observer is notified of
\* an operation exactly when registrations of it are outstanding, so
\* removing it fewer times than it was added leaves it registered
C16_NotifiedIffOutstanding ==
    [][IsStoreOp(last'.op) /\ ~last'.thrown =>
         \A o \in Observers :
            (o \in Called(bus'.delivered)) <=> (Outstanding(bus.calls, o, 0) > 0)]_vars

\* o1 added twice and removed once is still called by an operation
C16_Witness ==
    /\ IsStoreOp(last.op) /\ ~last.thrown
    /\ bus.calls = <<<<"add", "o1">>, <<"add", "o1">>, <<"remove", "o1">>>>
    /\ "o1" \in Called(bus.delivered)

RefTables == {"countries", "currencies", "paymentMethods"}

\* the table an operation on the reference data is about, as the observers
\* are told it
RefTag(t) ==
    IF t = "countries" THEN "Countries"
    ELSE IF t = "currencies" THEN "Currencies" ELSE "PaymentMethods"

RefAdds == {"addCountry", "addCurrency", "addPaymentMethod"}

RefEdits == {"editCountries", "editCurrencies"}

RefDeletes == {"deleteCountry", "deleteCurrency", "deletePaymentMethod"}

RefListReads == {"getCountriesInfo", "getCurrenciesInfo", "getPaymentMethodsInfo"}

RefItemReads == {"getCountryInfo", "getCurrencyInfo", "getPaymentMethodInfo"}

\* the kind of an operation on the reference data
RefKind(op) ==
    IF op \in RefAdds THEN "Add"
    ELSE IF op \in RefEdits THEN "Edit"
    ELSE IF op \in RefDeletes THEN "Delete" ELSE "Read"

\* C15: an operation (here: on the reference data) that completes with
\* status 0 calls every registered observer with its table, its kind and Ok
\* before it returns
C15_EveryOperationNotifies ==
    [][last'.table \in RefTables /\ last'.status = 0 /\ ~last'.thrown =>
         \A o \in (DOMAIN bus.callBack) \ {NullObserver} :
            [observer |-> o, table |-> RefTag(last'.table),
             operation |-> RefKind(last'.op), status |-> "Ok"] \in bus'.delivered]_vars

\* the list of a reference set in memory, its flag, and a row as an entry
CachedList(c, t) ==
    IF t = "countries" THEN c.countries
    ELSE IF t = "currencies" THEN c.currencies ELSE c.payments

CachedFlag(c, t) ==
    IF t = "countries" THEN c.isGetCountriesDataFromDB
    ELSE IF t = "currencies" THEN c.isGetCurrenciesDataFromDB
    ELSE c.isGetPaymentsDataFromDB

RefInfoOf(t, r) ==
    IF t = "countries" THEN CountryInfoOf(r)
    ELSE IF t = "currencies" THEN CurrencyInfoOf(r) ELSE PaymentMethodInfoOf(r)

\* list is the rows of table t in an order ORDER BY sortOrder allows
IsTableInOrder(list, t, rows) ==
    \E s \in OrderBySortOrder(rows) :
        list = [i \in 1 .. Len(s) |-> RefInfoOf(t, s[i])]

\* C17: a list read that follows a completed write (add, bulk edit or
\* delete, failed adds included) of the same reference set returns the rows
\* of the table ordered by sortOrder, none missing, extra or repeated
C17_ListReadEqualsTable ==
    [][/\ last.op \in RefAdds \cup RefEdits \cup RefDeletes
       /\ last'.op \in RefListReads
       /\ last'.table = last.table
       => IsTableInOrder(last'.result, last'.table, db'.tab[last'.table])]_vars

\* C18: the first read of a reference set, list or single item, loads the
\* whole table into memory and clears that set's flag; a read with the flag
\* cleared runs no statement, and a list read then returns the list as it is
C18_FirstReadLoadsLaterReadsCached ==
    [][last'.op \in RefListReads \cup RefItemReads =>
         IF CachedFlag(cache, last'.table)
         THEN /\ ~CachedFlag(cache', last'.table)
              /\ IsTableInOrder(CachedList(cache', last'.table), last'.table,
                                db.tab[last'.table])
         ELSE /\ ~last'.queried
              /\ cache' = cache
              /\ last'.op \in RefListReads =>
                    last'.result = CachedList(cache, last'.table)]_vars

\* the rows after a bulk edit that rewrites the sort order alone: a row
\* named in the list gets the position of its (last) item, counted from 0
SortOrderRewritten(rows, list) ==
    {LET at == {i \in 1 .. Len(list) : list[i].iso = r.iso}
     IN  IF at = {} THEN r
         ELSE [r EXCEPT !.sortOrder =
                  (CHOOSE m \in at : \A k \in at : k <= m) - 1] : r \in rows}

\* the rows after a bulk edit that rewrites the sort order and the enabled
\* flag
SortOrderAndEnabledRewritten(rows, list) ==
    {LET at == {i \in 1 .. Len(list) : list[i].iso = r.iso}
     IN  IF at = {} THEN r
         ELSE LET m == CHOOSE m \in at : \A k \in at : k <= m
              IN  [r EXCEPT !.sortOrder = m - 1, !.enabled = list[m].enabled] :
     r \in rows}

MatchesAsStated(r, f) ==
    /\ MatchesOfferFilter(r, f)
    /\ (f.type > 0 => r.type = f.type)
    /\ (f.statusOffer > 0 => r.status = f.statusOffer)

\* C20: a list without limit returns exactly the records that match every
\* constrained field of the filter, where "" for countryIso or currencyIso,
\* 0 for paymentMethod, and a zero or negative type or status constrain
\* nothing; so the filter of empty and zero values returns every record
C20_ListReturnsConjunction ==
    [][last'.op \in {"getOffers", "getMyOffers"} /\ last'.key.limit = 0 =>
         LET f == last'.key
             rows == db.tab[last'.table]
         IN  IF last'.op = "getOffers"
             THEN last'.result =
                    {getOffer_it(r) : r \in {x \in rows : MatchesOfferFilter(x, f)}}
             ELSE last'.result =
                    {getMyOffer_it(r) : r \in {x \in rows : MatchesAsStated(x, f)}}]_vars

\* C21: a count under a filter is the number of records the list under
\* that filter returns without limit, a count without arguments is the
\* number of records of the set, and a count over a modification window is
\* the number of pairs of the manifest of that window
C21_CountsMirrorLists ==
    [][LET rows == db.tab[last'.table]
           f == last'.key
       IN  /\ last'.op = "countOffersFilter" =>
                last'.result = Cardinality({getOffer_it(r) : r \in
                                   {x \in rows : MatchesOfferFilter(x, f)}})
           /\ last'.op = "countMyOffers" =>
                last'.result = Cardinality({getMyOffer_it(r) : r \in
                                   {x \in rows : MatchesMyOfferFilter(x, f)}})
           /\ last'.op = "countOffers" =>
                last'.result =
                   IF last'.table = "myOffers"
                   THEN Cardinality({getMyOffer_it(r) : r \in rows})
                   ELSE Cardinality({getOffer_it(r) : r \in rows})
           /\ last'.op = "countOffersPeriod" =>
                last'.result = Cardinality(
                   getHashsAndEditingVersions(rows, f.from, f.timeMod))]_vars

\* of two local offers the count for type 0 is one
C21_Witness ==
    /\ last.op = "countMyOffers" /\ last.key.type = 0 /\ last.key.currencyIso = ""
    /\ Cardinality(db.tab["myOffers"]) = 2
    /\ last.result = 1

\* C22: while a row of a hash exists in an offer table its editingVersion
\* never decreases, and an edit that changes the row stores an
\* editingVersion above the one the row held
C22_EditingVersionOnlyIncreases ==
    [][\A t \in OfferTables : \A r \in db.tab[t] : \A r2 \in db'.tab[t] :
          r.hash = r2.hash =>
             /\ ToUInt32(r2.editingVersion) >= ToUInt32(r.editingVersion)
             /\ (/\ last'.op \in {"editOffer", "editMyOffer"}
                 /\ last'.table = t /\ GetHex(last'.key) = r.hash
                 /\ last'.status = 0)
                => ToUInt32(r2.editingVersion) > ToUInt32(r.editingVersion)]_vars

\* C23: each offer table holds at most one row per hash, so its (hash,
\* editingVersion) pairs are those of distinct rows, and an edit leaves the
\* number of rows of its table as it was
C23_OneRowPerHash ==
    [][/\ \A t \in OfferTables : \A r1 \in db'.tab[t] : \A r2 \in db'.tab[t] :
             r1.hash = r2.hash => r1 = r2
       /\ \A t \in OfferTables :
             Cardinality({<<r.hash, r.editingVersion>> : r \in db'.tab[t]})
                = Cardinality(db'.tab[t])
       /\ last'.op \in {"editOffer", "editMyOffer"} =>
             Cardinality(db'.tab[last'.table]) = Cardinality(db.tab[last'.table])]_vars

\* an edit has changed one of the two rows of a table
C23_Witness ==
    /\ last.op = "editOffer" /\ last.changes = 1
    /\ Cardinality(db.tab[last.table]) = 2

\* C24: for a key no row has, exists and existsByHash return false and
\* raise no error, and get and getByHash report an error to the caller
\* instead of returning a record
C24_AbsentKeyLookups ==
    [][/\ last'.op \in {"get", "isExist"}
       /\ RowsByKey(db.tab[last'.table], last'.key.column, last'.key.value) = {}
       => IF last'.op = "isExist"
          THEN last'.result = FALSE /\ ~last'.thrown
          ELSE last'.thrown]_vars

\* the tables, their definitions or the indexes of the file differ from
\* those the code declares
SchemaDiffers(d) ==
    \/ TablesOf(d) # AllTables
    \/ d.idx # AllIndexes
    \/ \E t \in TablesOf(d) : d.sql[t] # "declared"

\* C25: an open on which the integrity check is not clean, or which finds
\* the version of the code with another schema than the declared one, ends
\* with an error: pSingleton stays null and nCounter is as before; the next
\* instance() runs the constructor again
C25_FailedOpenPublishesNothing ==
    [][last'.op = "instance" /\ life.pSingleton = 0 =>
         /\ (\/ last'.path = "integrity"
             \/ /\ ~isDexDbEmpty(db) /\ ~isDexDbOutdated(db)
                /\ SchemaDiffers(db))
            => /\ last'.thrown
               /\ life'.pSingleton = 0 /\ life'.nCounter = life.nCounter
               /\ life'.live = life.live
         /\ (last.op = "instance" /\ last.thrown) => last'.path # NoArg]_vars

\* an open has failed on a file of the code's version with an edited
\* schema, and nothing is held
C25_Witness ==
    /\ last.op = "instance" /\ last.thrown /\ last.path = "check"
    /\ ~isDexDbOutdated(db) /\ SchemaDiffers(db)
    /\ life.pSingleton = 0 /\ life.nCounter = 0

\* C26: the open of an empty file creates every table and index, seeds the
\* three reference tables and stores the version of the code, and the same
\* constructor goes on to the schema check, which passes; once the file
\* has been opened, a later open neither creates nor migrates: it leaves
\* the file as it is
C26_EmptyOpenLeavesCurrentStore ==
    [][last'.op = "instance" /\ life.pSingleton = 0
          /\ last'.path # "integrity" =>
         /\ isDexDbEmpty(db) =>
              /\ TablesOf(db') = AllTables /\ db'.idx = AllIndexes
              /\ \A t \in AllTables : db'.sql[t] = "declared"
              /\ db'.tab["dbversion"] = {[version |-> uiDexDBversionInCode]}
              /\ {r.iso : r \in db'.tab["countries"]} =
                    {DefaultCountries[i].iso : i \in DOMAIN DefaultCountries}
              /\ {r.iso : r \in db'.tab["currencies"]} =
                    {DefaultCurrencies[i].iso : i \in DOMAIN DefaultCurrencies}
              /\ {r.type : r \in db'.tab["paymentMethods"]} =
                    {DefaultPaymentMethods[i].type :
                        i \in DOMAIN DefaultPaymentMethods}
              /\ \A t \in OfferTables \cup {"myOffers"} : db'.tab[t] = {}
              /\ last'.path = "check" /\ ~last'.thrown
         /\ life.opened >= 1 => last'.path = "check" /\ db' = db]_vars

\* the second open of a file that the first open created
C26_Witness ==
    /\ last.op = "instance" /\ last.path = "check" /\ ~last.thrown
    /\ life.opened = 2 /\ life.pSingleton = 2
    /\ db.tab["dbversion"] = {[version |-> uiDexDBversionInCode]}
    /\ db.tab["offersSell"] = {}

\* C27: a read made through another connection while the constructor
\* migrates, or after it, is given the file as it was when the migration
\* began or as the migration leaves it at its commit, with every table
\* under its own name and no *_old table
C27_ReadersSeeNoIntermediateSchema ==
    [][last'.op = "read" /\ last'.status = 0 =>
         /\ last'.key \in {thr["t1"].tmp,
                           Migrate(thr["t1"].tmp, thr["t1"].held)}
         /\ AllTables \subseteq TablesOf(last'.key)
         /\ \A t \in MovedTables : OldName(t) \notin TablesOf(last'.key)
         /\ thr["t1"].pc = Committed =>
                last'.key = Migrate(thr["t1"].tmp, thr["t1"].held)]_vars

\* a read was answered while the tables of the migrating connection were
\* renamed and not yet created again
C27_Witness ==
    /\ last.op = "read" /\ last.status = 0
    /\ thr["t1"].pc \in 1 .. Len(MigrationStatements)
    /\ OldName("offersSell") \in TablesOf(thr["t1"].obj)
    /\ "offersSell" \notin TablesOf(thr["t1"].obj)
    /\ last.key = thr["t1"].tmp

\* C28: in each offer table, after an edit on a stored hash the record read
\* by that hash equals the record the caller passed, in every field
C28_EditThenGetByHash ==
    [][/\ last'.op = "editOffer" =>
            \A offer \in CrudOffers :
                /\ offer.hash = last'.key
                /\ editOffer(last'.table, offer)
                /\ HasHash(db.tab[last'.table], offer.hash)
                => getOfferByHash(db'.tab[last'.table], offer.hash) = offer
       /\ last'.op = "editMyOffer" =>
            \A offer \in CrudMyOffers :
                /\ offer.hash = last'.key
                /\ editMyOffer(offer)
                /\ HasHash(db.tab["myOffers"], offer.hash)
                => getMyOfferByHash(db'.tab["myOffers"], offer.hash) = offer]_vars

\* C29: in each offer table, deleteOfferByHash removes the row of that hash
\* and deleteOffer removes every row of that idTransaction; the other rows
\* of the table, the other tables, the schema and the indexes stay as they
\* were, and a delete that matches no row raises nothing and changes
\* nothing
C29_DeleteRemovesExactlyTheKey ==
    [][last'.op \in {"deleteOffer", "deleteOfferByHash"} =>
         LET t == last'.table
             column == IF last'.op = "deleteOffer" THEN "idTransaction" ELSE "hash"
             matched == {r \in db.tab[t] : r[column] = GetHex(last'.key)}
         IN  /\ db'.tab[t] = db.tab[t] \ matched
             /\ last'.changes = Cardinality(matched)
             /\ OthersUntouched(t)
             /\ db'.sql = db.sql /\ db'.idx = db.idx
             /\ ~last'.thrown /\ last'.status = 0
             /\ matched = {} => db' = db]_vars

\* one deleteOffer has just removed two offers of the same idTransaction
C29_Witness ==
    /\ last.op = "deleteOffer" /\ last.changes = 2 /\ ~last.thrown
    /\ db.tab[last.table] = {}

\* C30: lastModificationOffersSell and lastModificationOffersBuy return the
\* greatest timeModification among the offers the table holds when they are
\* called, whatever adds, edits, deletes and sweeps came before
C30_LastModificationIsMaximum ==
    [][last'.op = "lastModificationOffers" /\ db.tab[last'.table] # {} =>
         LET stored == StoredOffers(db.tab[last'.table])
         IN  /\ \E o \in stored : o.timeModification = last'.result
             /\ \A o \in stored : o.timeModification <= last'.result
             /\ ~last'.thrown]_vars

\* the time has just been read from a table of two offers modified at
\* different times, and it is the later one
C30_Witness ==
    /\ last.op = "lastModificationOffers" /\ last.result = 1
    /\ {r.timeModification : r \in db.tab[last.table]} = {0, 1}

\* the calls that read offers
OfferReads ==
    {"getHashsAndEditingVersions", "countOffers", "get", "isExist",
     "getOffers", "lastModificationOffers"}

\* the pairs of a manifest, whatever their order in the list
PairsOf(list) == {list[i] : i \in DOMAIN list}

\* C31: a read leaves every table as it was, and a manifest holds the pairs
\* (hash, editingVersion) of the rows in its window and no other, in
\* whatever order: two manifests of the same window with only reads between
\* them are the same set of pairs
C31_ReadsChangeNothing ==
    [][/\ last'.op \in OfferReads => db' = db
       /\ last'.op = "getHashsAndEditingVersions" =>
            /\ PairsOf(last'.result) =
                 {<<o.hash, o.editingVersion>> :
                    o \in {x \in StoredOffers(db.tab[last'.table]) :
                             \/ last'.key.from = "All"
                             \/ last'.key.from = "Before"
                                  /\ x.timeModification < last'.key.timeMod
                             \/ last'.key.from = "After"
                                  /\ x.timeModification >= last'.key.timeMod}}
            /\ (/\ last.op = "getHashsAndEditingVersions"
                /\ last.key = last'.key /\ last.table = last'.table)
                 => PairsOf(last'.result) = PairsOf(last.result)]_vars

\* a manifest of two pairs has just been returned in the other order than
\* the hashes were stored in
C31_Witness ==
    /\ last.op = "getHashsAndEditingVersions" /\ last.key.from = "All"
    /\ Len(last.result) = 2 /\ last.result[1][1] > last.result[2][1]

\* the TypeTable value that names a table
TypeTableOf(t) ==
    CASE t = "offersSell" -> "OffersSell"
      [] t = "offersBuy" -> "OffersBuy"
      [] t = "myOffers" -> "MyOffers"
      [] t = "countries" -> "Countries"
      [] t = "currencies" -> "Currencies"
      [] t = "paymentMethods" -> "PaymentMethods"
      [] t = "filterList" -> "FiltersList"

\* the TypeTableOperation value that names what a call on offers does
OperationOf(op) ==
    CASE op = "addOffer" -> "Add"
      [] op = "editOffer" -> "Edit"
      [] op \in {"deleteOffer", "deleteOfferByHash", "deleteOldOffers"} -> "Delete"
      [] op = "lastModificationOffers" -> "Read"

\* C32: the notification of a call names the table the call acted on and
\* the kind of the call
C32_TagNamesTheTable ==
    [][last' # last =>
         /\ last'.tag = TypeTableOf(last'.table)
         /\ last'.kind = OperationOf(last'.op)]_vars

\* C33: after a migration without an error each offer table holds, for
\* every row the legacy table held, that row with timeModification set to
\* its timeCreate and every other column as it was, and no other row
C33_MigratedRowsTakeTimeCreate ==
    [][last'.op = "DexDB" /\ last'.key = "migrate"
          /\ last'.status = 0 /\ ~last'.thrown =>
        \A t \in OfferTables :
            db'.tab[t] = {[r EXCEPT !.timeModification = r.timeCreate] :
                            r \in db.tab[t]}]_vars

\* a migration without an error has just moved offers of the three tables;
\* the offer of hash 1 created at time 1, which the legacy sell table held
\* with timeModification 0, now has timeModification 1
C33_Witness ==
    /\ last.op = "DexDB" /\ last.key = "migrate"
    /\ last.status = 0 /\ ~last.thrown
    /\ \A t \in OfferTables : db.tab[t] # {}
    /\ \E r \in db.tab["offersSell"] :
          /\ r.hash = GetHex(1) /\ r.timeCreate = 1 /\ r.timeModification = 1

\* C34: editStatusForMyOffer changes nothing but the status column of the
\* rows of myOffers with the given idTransaction: the hashes of the table
\* stay the same, a row of another idTransaction is as it was, a row of
\* that idTransaction is as it was in every column but status, and the
\* other tables, the schema and the indexes are untouched
C34_StatusEditChangesStatusOnly ==
    [][last'.op = "editStatusForMyOffer" =>
         /\ {r.hash : r \in db'.tab["myOffers"]} = {r.hash : r \in db.tab["myOffers"]}
         /\ Cardinality(db'.tab["myOffers"]) = Cardinality(db.tab["myOffers"])
         /\ \A r \in db.tab["myOffers"] :
               IF r.idTransaction = GetHex(last'.key)
               THEN \E r2 \in db'.tab["myOffers"] :
                       [r2 EXCEPT !.status = r.status] = r
               ELSE r \in db'.tab["myOffers"]
         /\ OthersUntouched("myOffers")
         /\ db'.sql = db.sql /\ db'.idx = db.idx]_vars

\* the status of a local offer that was added as Active has just been set
\* to Draft, next to an offer of a remote table
C34_Witness ==
    /\ last.op = "editStatusForMyOffer" /\ last.changes = 1 /\ ~last.thrown
    /\ MyOffer(Sample1(1), "Sell", "Draft") \in StoredMyOffers(db.tab["myOffers"])
    /\ \E t \in RemoteTables : db.tab[t] # {}

\* C35: after every instance() and freeInstance() of a sequential run, an
\* instance() that threw included, pSingleton is set exactly when nCounter
\* is above zero and nCounter is not negative; a freeInstance() made at
\* nCounter zero leaves the statics and the file as they were
C35_HandleIffCounted ==
    [][/\ (life'.pSingleton # 0) = (life'.nCounter > 0)
       /\ life'.nCounter >= 0
       /\ last'.op = "instance" /\ last'.thrown => life' = life
       /\ last'.op = "freeInstance" /\ life.nCounter = 0 =>
            /\ life' = life /\ db' = db
            /\ last'.key = 0]_vars

\* freeInstance() has just been called though no instance() has returned a
\* handle yet, the one made before having thrown on an edited schema
C35_Witness ==
    /\ last.op = "freeInstance" /\ life.opened = 0
    /\ life.pSingleton = 0 /\ life.nCounter = 0
    /\ ~isDexDbEmpty(db) /\ ~isDexDbOutdated(db) /\ SchemaDiffers(db)

\* C36: an operation that completes calls an observer with one or more
\* registrations once; every entry of callBack has a count of at least 1;
\* a removeCallBack of a pointer without an entry leaves callBack as it was
C36_OneEventPerObserver ==
    [][/\ IsStoreOp(last'.op) /\ ~last'.thrown =>
            \A o \in Observers :
                Outstanding(bus.calls, o, 0) >= 1 =>
                    /\ o \in DOMAIN bus'.times /\ bus'.times[o] = 1
                    /\ Cardinality({e \in bus'.delivered : e.observer = o}) = 1
       /\ \A o \in DOMAIN bus'.callBack : bus'.callBack[o] >= 1
       /\ last'.op = "removeCallBack" /\ last'.key \notin DOMAIN bus.callBack =>
            bus'.callBack = bus.callBack]_vars

\* o1, registered twice, has just been called once by an operation
C36_Witness ==
    /\ IsStoreOp(last.op) /\ ~last.thrown
    /\ "o1" \in DOMAIN bus.callBack /\ bus.callBack["o1"] = 2
    /\ bus.times["o1"] = 1

\* the calls that write an offer table
OfferWrites ==
    {"addOffer", "editOffer", "addMyOffer", "editMyOffer", "deleteOffer",
     "deleteOfferByHash", "deleteOldOffers", "setStatusExpiredForMyOffers",
     "editStatusForMyOffer"}

\* C37: an add, edit, delete or sweep on one offer table leaves the two
\* other offer tables, the reference tables, the filter list and the
\* dbversion row as they were
C37_OfferTablesAreSeparate ==
    [][last'.op \in OfferWrites =>
         /\ last'.table \in OfferTables
         /\ \A u \in AllTables \ {last'.table} :
               u \in TablesOf(db') /\ db'.tab[u] = db.tab[u]
         /\ db'.tab["dbversion"] = {[version |-> uiDexDBversionInCode]}]_vars

\* a row has just been removed from one offer table while another offer
\* table holds a row and the reference tables hold the seed data
C37_Witness ==
    /\ last.op \in {"deleteOffer", "deleteOldOffers"} /\ last.changes = 1
    /\ \E u \in OfferTables \ {last.table} : db.tab[u] # {}
    /\ db.tab["countries"] # {} /\ db.tab["currencies"] # {}
    /\ db.tab["paymentMethods"] # {}

C39_RegistrationsOutliveHandle ==
    [][/\ last'.op \in {"instance", "freeInstance"} =>
            bus'.callBack = bus.callBack
       /\ last'.op \in {"addOffer", "deleteOfferByHash"} /\ ~last'.thrown =>
            \A o \in Observers :
                Outstanding(bus.calls, o, 0) >= 1 =>
                    o \in Called(bus'.delivered)]_vars

\* o1 has been registered once; the second object of the run has just
\* added an offer and o1 was called
C39_Witness ==
    /\ last.op = "addOffer" /\ ~last.thrown
    /\ life.opened = 2 /\ life.pSingleton = 2
    /\ bus.calls = <<<<"add", "o1">>>>
    /\ "o1" \in Called(bus.delivered)

\* DexDB::getFilters: SELECT filter FROM filterList, as a set
getFilters_exec(rows) == {r.filter : r \in rows}

\* C40: a migration, with or without a failed statement, leaves the table
\* filterList under its name, with the definition and the rows it had:
\* getFilters reads the same filters after it as before
C40_MigrationKeepsFilterList ==
    [][last'.op = "DexDB" /\ last'.key = "migrate" =>
         /\ "filterList" \in TablesOf(db')
         /\ OldName("filterList") \notin TablesOf(db')
         /\ db'.sql["filterList"] = db.sql["filterList"]
         /\ db'.tab["filterList"] = db.tab["filterList"]
         /\ getFilters_exec(db'.tab["filterList"])
               = getFilters_exec(db.tab["filterList"])]_vars

\* a file has just been migrated: its offer tables are the declared ones,
\* its filterList is still the edited one and holds its filter
C40_Witness ==
    /\ last.op = "DexDB" /\ last.key = "migrate" /\ last.status = 0
    /\ getFilters_exec(db.tab["filterList"]) = {"f1"}
    /\ db.sql["filterList"] = "edited"
    /\ db.sql["offersSell"] = "declared" /\ db.tab["offersSell"] # {}

====
